---- MODULE Spec2Model ----
(***************************************************************************)
(* A model of the binary cursor stream (BinaryStream) and of the record    *)
(* types built on it (War3MapW3i, War3MapWct, Trigger).                     *)
(*                                                                         *)
(* Conventions.  An ArrayBuffer is a sequence of bytes (0..255); position  *)
(* p of the buffer is element p + 1 of the sequence.  A string is the      *)
(* sequence of its character codes.  A number that needs the whole         *)
(* unsigned 32-bit range is a record [hi, lo] of two 16-bit halves (the    *)
(* model checker's integers are 32-bit signed).  A float is its IEEE bit   *)
(* pattern, held as a signed 32-bit integer.                               *)
(***************************************************************************)
EXTENDS Integers, Sequences, FiniteSets, TLC

VARIABLES
    buffer,     \* the ArrayBuffer the streams share
    streams,    \* the BinaryStream objects, in creation order
    ret,        \* the last call: operation, stream, arguments, returned data
    typedArray,       \* the typed array handed to the array writes
    object,     \* the record object (War3MapW3i, War3MapWct or Trigger)
    saved,      \* the record object as it was when it was last saved
    edits       \* how many edits and field stores the caller has made on the record

streamVars == <<buffer, streams, ret>>
recordVars == <<object, saved, edits>>
vars == <<buffer, streams, ret, typedArray, object, saved, edits>>

(***************************************************************************)
(* Bounds of the model.                                                    *)
(***************************************************************************)
BufLen == 3

\* The byte values of the initial buffers and of the written samples: a
\* terminator and two distinct characters.
Alphabet == {0, 65, 66}

(***************************************************************************)
(* JavaScript values.                                                      *)
(***************************************************************************)
\* What a typed array returns for an index outside it, and the value of a
\* parameter that was not passed.
Undefined == -1

\* Storing into a Uint8Array: undefined becomes 0, a number wraps modulo 256.
ToUint8(v) == IF v = Undefined THEN 0 ELSE v % 256

\* String.fromCharCode(b): one character; undefined gives the character 0.
fromCharCode(b) == IF b = Undefined THEN 0 ELSE b

(***************************************************************************)
(* typecast: reinterpretation of little-endian bytes through a shared      *)
(* scratch buffer.  A byte argument that is undefined is stored as 0.      *)
(***************************************************************************)
uint8ToInt8(a) ==
    LET x == ToUint8(a) IN IF x >= 128 THEN x - 256 ELSE x

uint8ToUint16(a, b) == ToUint8(a) + ToUint8(b) * 256

uint8ToInt16(a, b) ==
    LET x == uint8ToUint16(a, b) IN IF x >= 32768 THEN x - 65536 ELSE x

uint8ToInt32(a, b, c, d) ==
    uint8ToUint16(a, b) + ToUint8(c) * 65536 + uint8ToInt8(d) * 16777216

uint8ToUint32(a, b, c, d) ==
    [hi |-> uint8ToUint16(c, d), lo |-> uint8ToUint16(a, b)]

uint8ToFloat32(a, b, c, d) == uint8ToInt32(a, b, c, d)

\* The xxxToUint8 casts fill the scratch buffer; the result is its bytes.
int8ToUint8(value) == value % 256

int16ToUint8(value) == <<value % 256, (value \div 256) % 256>>

int32ToUint8(value) ==
    <<value % 256, (value \div 256) % 256,
      (value \div 65536) % 256, (value \div 16777216) % 256>>

uint16ToUint8(value) == <<value % 256, (value \div 256) % 256>>

uint32ToUint8(value) ==
    <<value.lo % 256, (value.lo \div 256) % 256,
      value.hi % 256, (value.hi \div 256) % 256>>

float32ToUint8(value) == int32ToUint8(value)

\* A small non-negative integer as an unsigned 32-bit number, and back.
ToUint32(n) == [hi |-> (n \div 65536) % 65536, lo |-> n % 65536]
Uint32ToNat(u) == u.hi * 65536 + u.lo

(***************************************************************************)
(* BinaryStream.                                                           *)
(***************************************************************************)
\* new Uint8Array(buffer, byteOffset, byteLength) throws a RangeError when
\* the window does not fit the buffer.
ViewFits(b, byteOffset, byteLength) ==
    LET off == IF byteOffset = Undefined THEN 0 ELSE byteOffset
    IN  /\ off >= 0 /\ off <= Len(b)
        /\ byteLength # Undefined => (byteLength >= 0 /\ off + byteLength <= Len(b))

\* The constructor, given an ArrayBuffer: the window of the Uint8Array, index 0
\* and byteLength.
BinaryStream(b, byteOffset, byteLength) ==
    LET off == IF byteOffset = Undefined THEN 0 ELSE byteOffset
    IN  [byteOffset |-> off,
         length     |-> IF byteLength = Undefined THEN Len(b) - off ELSE byteLength,
         index      |-> 0,
         byteLength |-> Len(b)]

\* uint8array[i]
U8(b, s, i) ==
    IF i >= 0 /\ i < s.length THEN b[s.byteOffset + i + 1] ELSE Undefined

\* (mutant) a store is bounded by the buffer, not by the view.
InArray_BufferBounds(b, s, i) ==
    s.byteOffset + i >= 0 /\ s.byteOffset + i < Len(b)

\* An index of the uint8array, the view of the stream on its buffer.
InArray(b, s, i) == i >= 0 /\ i < s.length

\* uint8array[i] = v: a store outside the array is ignored.
U8Set(b, s, i, v) ==
    IF InArray(b, s, i)
    THEN [b EXCEPT ![s.byteOffset + i + 1] = ToUint8(v)]
    ELSE b

\* Consecutive stores of the bytes of vs from position i on: byte k of the
\* buffer is what the store of vs[j] that addresses it leaves there.
U8SetAll(b, s, i, vs) ==
    [k \in 1..Len(b) |->
        LET j == k - s.byteOffset - i
        IN  IF j \in 1..Len(vs) /\ InArray(b, s, i + j - 1)
            THEN ToUint8(vs[j])
            ELSE b[k]]

substream(b, s, byteLength) == BinaryStream(b, s.index, byteLength)

remaining(s) == s.byteLength - s.index

skip(s, bytes) == [s EXCEPT !.index = s.index + bytes]

seek(s, index) == [s EXCEPT !.index = index]

tell(s) == s.index

peek(b, s, size, allowNulls) ==
    LET raw == [i \in 1..size |-> U8(b, s, s.index + i - 1)]
        Keep(x) == allowNulls \/ x > 0
        kept == SelectSeq(raw, Keep)
    IN  [i \in 1..Len(kept) |-> fromCharCode(kept[i])]

read(b, s, size, allowNulls) ==
    LET sz == IF size = Undefined \/ size = 0 THEN remaining(s) ELSE size
    IN  [data |-> peek(b, s, sz, allowNulls),
         s    |-> [s EXCEPT !.index = s.index + sz]]

\* The loop of peekUntilNull ends only at a zero byte: outside the window every
\* byte is undefined, which is not 0, so without a zero byte at or after the
\* index the call never returns.
NullAhead(b, s) ==
    \E j \in 0..(s.length - 1) : j >= s.index /\ U8(b, s, j) = 0

RECURSIVE UntilNullLoop(_, _, _, _)
UntilNullLoop(b, s, i, data) ==
    LET x == U8(b, s, s.index + i)
    IN  IF x = 0 THEN data
        ELSE UntilNullLoop(b, s, i + 1, Append(data, fromCharCode(x)))

peekUntilNull(b, s) == UntilNullLoop(b, s, 0, <<>>)

\* (mutant) the terminator is not consumed.
readUntilNull_KeepsTerminator(b, s) ==
    LET data == peekUntilNull(b, s)
    IN  [data |-> data, s |-> [s EXCEPT !.index = s.index + Len(data)]]

readUntilNull(b, s) ==
    LET data == peekUntilNull(b, s)
    IN  [data |-> data, s |-> [s EXCEPT !.index = s.index + Len(data) + 1]]

peekCharArray(b, s, size) ==
    [i \in 1..size |-> fromCharCode(U8(b, s, s.index + i - 1))]

readCharArray(b, s, size) ==
    [data |-> peekCharArray(b, s, size), s |-> skip(s, size)]

readInt8(b, s) ==
    [data |-> uint8ToInt8(U8(b, s, s.index)), s |-> skip(s, 1)]

readInt16(b, s) ==
    [data |-> uint8ToInt16(U8(b, s, s.index), U8(b, s, s.index + 1)),
     s    |-> skip(s, 2)]

readInt32(b, s) ==
    [data |-> uint8ToInt32(U8(b, s, s.index), U8(b, s, s.index + 1),
                           U8(b, s, s.index + 2), U8(b, s, s.index + 3)),
     s    |-> skip(s, 4)]

readUint8(b, s) ==
    [data |-> U8(b, s, s.index), s |-> skip(s, 1)]

readUint16(b, s) ==
    [data |-> uint8ToUint16(U8(b, s, s.index), U8(b, s, s.index + 1)),
     s    |-> skip(s, 2)]

readUint32(b, s) ==
    [data |-> uint8ToUint32(U8(b, s, s.index), U8(b, s, s.index + 1),
                            U8(b, s, s.index + 2), U8(b, s, s.index + 3)),
     s    |-> skip(s, 4)]

readFloat32(b, s) ==
    [data |-> uint8ToFloat32(U8(b, s, s.index), U8(b, s, s.index + 1),
                             U8(b, s, s.index + 2), U8(b, s, s.index + 3)),
     s    |-> skip(s, 4)]

\* The typed-array reads, given a length: a new array of that many elements.
readInt8Array(b, s, n) ==
    [data |-> [i \in 1..n |-> uint8ToInt8(U8(b, s, s.index + i - 1))],
     s    |-> skip(s, n)]

readInt16Array(b, s, n) ==
    [data |-> [i \in 1..n |->
                 LET offset == s.index + (i - 1) * 2
                 IN  uint8ToInt16(U8(b, s, offset), U8(b, s, offset + 1))],
     s    |-> skip(s, n * 2)]

\* The element is built by uint8ToInt16, which takes two bytes: the third and
\* fourth arguments passed to it are dropped.
readInt32Array(b, s, n) ==
    [data |-> [i \in 1..n |->
                 LET offset == s.index + (i - 1) * 4
                 IN  uint8ToInt16(U8(b, s, offset), U8(b, s, offset + 1))],
     s    |-> skip(s, n * 4)]

readUint8Array(b, s, n) ==
    [data |-> [i \in 1..n |-> ToUint8(U8(b, s, s.index + i - 1))],
     s    |-> skip(s, n)]

readUint16Array(b, s, n) ==
    [data |-> [i \in 1..n |->
                 LET offset == s.index + (i - 1) * 2
                 IN  uint8ToUint16(U8(b, s, offset), U8(b, s, offset + 1))],
     s    |-> skip(s, n * 2)]

readUint32Array(b, s, n) ==
    [data |-> [i \in 1..n |->
                 LET offset == s.index + (i - 1) * 4
                 IN  uint8ToUint32(U8(b, s, offset), U8(b, s, offset + 1),
                                   U8(b, s, offset + 2), U8(b, s, offset + 3))],
     s    |-> skip(s, n * 4)]

readFloat32Array(b, s, n) ==
    [data |-> [i \in 1..n |->
                 LET offset == s.index + (i - 1) * 4
                 IN  uint8ToFloat32(U8(b, s, offset), U8(b, s, offset + 1),
                                    U8(b, s, offset + 2), U8(b, s, offset + 3))],
     s    |-> skip(s, n * 4)]

\* The writes: the buffer after the call and the stream after the call.
write(b, s, value) ==
    [b |-> U8SetAll(b, s, s.index, value), s |-> skip(s, Len(value))]

writeInt8(b, s, value) ==
    [b |-> U8Set(b, s, s.index, int8ToUint8(value)), s |-> skip(s, 1)]

writeInt16(b, s, value) ==
    [b |-> U8SetAll(b, s, s.index, int16ToUint8(value)), s |-> skip(s, 2)]

writeInt32(b, s, value) ==
    [b |-> U8SetAll(b, s, s.index, int32ToUint8(value)), s |-> skip(s, 4)]

writeUint8(b, s, value) ==
    [b |-> U8Set(b, s, s.index, value), s |-> skip(s, 1)]

writeUint16(b, s, value) ==
    [b |-> U8SetAll(b, s, s.index, uint16ToUint8(value)), s |-> skip(s, 2)]

writeUint32(b, s, value) ==
    [b |-> U8SetAll(b, s, s.index, uint32ToUint8(value)), s |-> skip(s, 4)]

writeFloat32(b, s, value) ==
    [b |-> U8SetAll(b, s, s.index, float32ToUint8(value)), s |-> skip(s, 4)]

\* The bytes of a whole array, element after element.
Flatten(ss) ==
    IF ss = <<>> THEN <<>>
    ELSE LET w == Len(ss[1])
         IN  [k \in 1..(Len(ss) * w) |-> ss[((k - 1) \div w) + 1][((k - 1) % w) + 1]]

writeInt8Array(b, s, view) ==
    [b |-> U8SetAll(b, s, s.index, [i \in 1..Len(view) |-> int8ToUint8(view[i])]),
     s |-> skip(s, Len(view))]

writeInt16Array(b, s, view) ==
    [b |-> U8SetAll(b, s, s.index,
                    Flatten([i \in 1..Len(view) |-> int16ToUint8(view[i])])),
     s |-> skip(s, Len(view) * 2)]

writeInt32Array(b, s, view) ==
    [b |-> U8SetAll(b, s, s.index,
                    Flatten([i \in 1..Len(view) |-> int32ToUint8(view[i])])),
     s |-> skip(s, Len(view) * 4)]

writeUint8Array(b, s, view) ==
    [b |-> U8SetAll(b, s, s.index, view), s |-> skip(s, Len(view))]

writeUint16Array(b, s, view) ==
    [b |-> U8SetAll(b, s, s.index,
                    Flatten([i \in 1..Len(view) |-> uint16ToUint8(view[i])])),
     s |-> skip(s, Len(view) * 2)]

writeUint32Array(b, s, view) ==
    [b |-> U8SetAll(b, s, s.index,
                    Flatten([i \in 1..Len(view) |-> uint32ToUint8(view[i])])),
     s |-> skip(s, Len(view) * 4)]

writeFloat32Array(b, s, view) ==
    [b |-> U8SetAll(b, s, s.index,
                    Flatten([i \in 1..Len(view) |-> float32ToUint8(view[i])])),
     s |-> skip(s, Len(view) * 4)]

(***************************************************************************)
(* The stream machine: a buffer and the streams over it; every step is one *)
(* call on one stream.                                                     *)
(***************************************************************************)
MaxIndex == BufLen + 2

\* The values the sampled writes store: their bytes stay in the alphabet.
WriteStrings == {<<>>, <<65>>, <<66, 0>>, <<0, 65, 66>>}
Int8Samples == {66}
Int16Samples == {16961}
Int32Samples == {1090535746}
Uint8Samples == {0, 65}
Uint16Samples == {16896}
Uint32Samples == {[hi |-> 16896, lo |-> 65]}

\* The record of a call: the stream as it was before, the argument, the
\* returned data, and whether the call returned at all.
Call(op, sid, arg, data) ==
    [op |-> op, sid |-> sid, pre |-> streams[sid], arg |-> arg, data |-> data,
     returned |-> TRUE]

Sids == 1..Len(streams)

\* A call that reads: r is [data, s].
Reads(op, sid, arg, r) ==
    /\ ret.returned
    /\ r.s.index >= 0 /\ r.s.index <= MaxIndex
    /\ streams' = [streams EXCEPT ![sid] = r.s]
    /\ ret' = Call(op, sid, arg, r.data)
    /\ UNCHANGED <<buffer, typedArray, recordVars>>

\* A call that writes: r is [b, s].
Writes(op, sid, arg, r) ==
    /\ ret.returned
    /\ r.s.index >= 0 /\ r.s.index <= MaxIndex
    /\ streams' = [streams EXCEPT ![sid] = r.s]
    /\ buffer' = r.b
    /\ ret' = Call(op, sid, arg, Undefined)
    /\ UNCHANGED <<typedArray, recordVars>>

Read ==
    \E sid \in Sids, size \in {Undefined} \cup 0..BufLen, allowNulls \in BOOLEAN :
        Reads("read", sid, <<size, allowNulls>>,
              read(buffer, streams[sid], size, allowNulls))

\* Without a zero byte ahead the loop never ends: the call does not return and
\* nothing runs after it.
ReadUntilNull ==
    \E sid \in Sids :
        /\ ret.returned
        /\ IF NullAhead(buffer, streams[sid])
           THEN Reads("readUntilNull", sid, Undefined,
                      readUntilNull(buffer, streams[sid]))
           ELSE /\ ret' = [Call("readUntilNull", sid, Undefined, Undefined)
                              EXCEPT !.returned = FALSE]
                /\ UNCHANGED <<buffer, streams, typedArray, recordVars>>

ReadInt8 ==
    \E sid \in Sids : Reads("readInt8", sid, Undefined, readInt8(buffer, streams[sid]))

ReadInt16 ==
    \E sid \in Sids : Reads("readInt16", sid, Undefined, readInt16(buffer, streams[sid]))

ReadInt32 ==
    \E sid \in Sids : Reads("readInt32", sid, Undefined, readInt32(buffer, streams[sid]))

ReadUint8 ==
    \E sid \in Sids : Reads("readUint8", sid, Undefined, readUint8(buffer, streams[sid]))

ReadUint16 ==
    \E sid \in Sids : Reads("readUint16", sid, Undefined, readUint16(buffer, streams[sid]))

ReadUint32 ==
    \E sid \in Sids : Reads("readUint32", sid, Undefined, readUint32(buffer, streams[sid]))

Write ==
    \E sid \in Sids, value \in WriteStrings :
        Writes("write", sid, value, write(buffer, streams[sid], value))

WriteInt8 ==
    \E sid \in Sids, value \in Int8Samples :
        Writes("writeInt8", sid, value, writeInt8(buffer, streams[sid], value))

WriteInt16 ==
    \E sid \in Sids, value \in Int16Samples :
        Writes("writeInt16", sid, value, writeInt16(buffer, streams[sid], value))

WriteInt32 ==
    \E sid \in Sids, value \in Int32Samples :
        Writes("writeInt32", sid, value, writeInt32(buffer, streams[sid], value))

WriteUint8 ==
    \E sid \in Sids, value \in Uint8Samples :
        Writes("writeUint8", sid, value, writeUint8(buffer, streams[sid], value))

WriteUint16 ==
    \E sid \in Sids, value \in Uint16Samples :
        Writes("writeUint16", sid, value, writeUint16(buffer, streams[sid], value))

WriteUint32 ==
    \E sid \in Sids, value \in Uint32Samples :
        Writes("writeUint32", sid, value, writeUint32(buffer, streams[sid], value))

Skip ==
    \E sid \in Sids, bytes \in 1..BufLen :
        Reads("skip", sid, bytes, [data |-> Undefined, s |-> skip(streams[sid], bytes)])

Seek ==
    \E sid \in Sids, index \in 0..MaxIndex :
        Reads("seek", sid, index, [data |-> Undefined, s |-> seek(streams[sid], index)])

\* substream(byteLength) on the one stream there is: the new stream is
\* appended; a window that does not fit the buffer makes the constructor throw
\* and no stream is created.
Substream ==
    \E byteLength \in 0..BufLen :
        /\ ret.returned
        /\ Len(streams) = 1
        /\ ViewFits(buffer, streams[1].index, byteLength)
        /\ streams' = Append(streams, substream(buffer, streams[1], byteLength))
        /\ ret' = Call("substream", 1, byteLength, Undefined)
        /\ UNCHANGED <<buffer, typedArray, recordVars>>

\* The streams a program starts from: new BinaryStream(buffer) over the whole
\* buffer, or the substream(byteLength) of such a stream after seek(byteOffset).
FirstStreams(b) ==
    {BinaryStream(b, Undefined, Undefined)} \cup
    {substream(b, seek(BinaryStream(b, Undefined, Undefined), byteOffset), byteLength) :
        <<byteOffset, byteLength>> \in
            {w \in (0..Len(b)) \X (0..Len(b)) : ViewFits(b, w[1], w[2])}}

Constructed(s) ==
    [op |-> "new", sid |-> 1, pre |-> s, arg |-> Undefined, data |-> Undefined,
     returned |-> TRUE]

\* No typed array and no record object are in play.
NoTypedArray == typedArray = <<>>
NoRecord == object = <<>> /\ saved = <<>> /\ edits = 0

(***************************************************************************)
(* SpecStream: one stream and every read, write, skip and seek on it.      *)
(***************************************************************************)
InitStream ==
    /\ buffer \in [1..BufLen -> Alphabet]
    /\ \E s \in FirstStreams(buffer) : streams = <<s>> /\ ret = Constructed(s)
    /\ NoTypedArray /\ NoRecord

NextStream ==
    \/ Read
    \/ ReadUntilNull
    \/ ReadInt8
    \/ ReadInt16
    \/ ReadInt32
    \/ ReadUint8
    \/ ReadUint16
    \/ ReadUint32
    \/ Write
    \/ WriteInt8
    \/ WriteInt16
    \/ WriteInt32
    \/ WriteUint8
    \/ WriteUint16
    \/ WriteUint32
    \/ Skip
    \/ Seek

SpecStream == InitStream /\ [][NextStream]_vars

(***************************************************************************)
(* SpecSub: a stream, the substream made from it, and the edits that move  *)
(* and read the two.                                                       *)
(***************************************************************************)
\* A buffer whose bytes all differ, so that a byte tells its position.
Distinct(n) == [i \in 1..n |-> 64 + i]

InitSub ==
    /\ buffer = Distinct(BufLen)
    /\ \E s \in FirstStreams(buffer) : streams = <<s>> /\ ret = Constructed(s)
    /\ NoTypedArray /\ NoRecord

NextSub ==
    \/ Substream
    \/ Skip
    \/ Seek
    \/ ReadUint8
    \/ Read

SpecSub == InitSub /\ [][NextSub]_vars

(***************************************************************************)
(* SpecArray: a typed array is written, the stream is moved back to where  *)
(* the write began, and an array of the same length is read.               *)
(***************************************************************************)
MaxArrayLen == 2

Kinds == {"Int8", "Int16", "Int32", "Uint8", "Uint16", "Uint32"}

\* BYTES_PER_ELEMENT
Width(kind) ==
    CASE kind \in {"Int8", "Uint8"} -> 1
      [] kind \in {"Int16", "Uint16"} -> 2
      [] kind \in {"Int32", "Uint32"} -> 4

\* Values of each element kind: the ends of its range, and values on both
\* sides of every byte boundary.
Samples(kind) ==
    CASE kind = "Int8" -> {-128, -1, 0, 1, 127}
      [] kind = "Int16" -> {-32768, -257, -1, 0, 255, 256, 32767}
      [] kind = "Int32" -> {-2147483647 - 1, -32769, -1, 0, 255, 32767, 32768, 65536,
                            2147483647}
      [] kind = "Uint8" -> {0, 1, 127, 128, 255}
      [] kind = "Uint16" -> {0, 255, 256, 32768, 65535}
      [] kind = "Uint32" -> {[hi |-> 0, lo |-> 0], [hi |-> 0, lo |-> 65535],
                             [hi |-> 1, lo |-> 0], [hi |-> 32768, lo |-> 0],
                             [hi |-> 65535, lo |-> 65535]}

Arrays(kind) ==
    UNION {[1..n -> Samples(kind)] : n \in 0..MaxArrayLen}

Zeros(n) == [i \in 1..n |-> 0]

\* A call that writes the whole of typedArray.v.
WritesArray(kind, r) ==
    /\ typedArray.kind = kind
    /\ ret.op \in {"new", "skip"}
    /\ streams' = [streams EXCEPT ![1] = r.s]
    /\ buffer' = r.b
    /\ ret' = Call("write" \o kind \o "Array", 1, streams[1].index, Undefined)
    /\ UNCHANGED <<typedArray, recordVars>>

\* A call that reads as many elements as typedArray.v has, after the seek back.
ReadsArray(kind, r) ==
    /\ typedArray.kind = kind
    /\ ret.op = "seek"
    /\ streams' = [streams EXCEPT ![1] = r.s]
    /\ ret' = Call("read" \o kind \o "Array", 1, Len(typedArray.v), r.data)
    /\ UNCHANGED <<buffer, typedArray, recordVars>>

WriteInt8Array == WritesArray("Int8", writeInt8Array(buffer, streams[1], typedArray.v))
WriteInt16Array == WritesArray("Int16", writeInt16Array(buffer, streams[1], typedArray.v))
WriteInt32Array == WritesArray("Int32", writeInt32Array(buffer, streams[1], typedArray.v))
WriteUint8Array == WritesArray("Uint8", writeUint8Array(buffer, streams[1], typedArray.v))
WriteUint16Array == WritesArray("Uint16", writeUint16Array(buffer, streams[1], typedArray.v))
WriteUint32Array == WritesArray("Uint32", writeUint32Array(buffer, streams[1], typedArray.v))

ReadInt8Array == ReadsArray("Int8", readInt8Array(buffer, streams[1], Len(typedArray.v)))
ReadInt16Array == ReadsArray("Int16", readInt16Array(buffer, streams[1], Len(typedArray.v)))
ReadInt32Array == ReadsArray("Int32", readInt32Array(buffer, streams[1], Len(typedArray.v)))
ReadUint8Array == ReadsArray("Uint8", readUint8Array(buffer, streams[1], Len(typedArray.v)))
ReadUint16Array == ReadsArray("Uint16", readUint16Array(buffer, streams[1], Len(typedArray.v)))
ReadUint32Array == ReadsArray("Uint32", readUint32Array(buffer, streams[1], Len(typedArray.v)))

\* skip(1) before the write, so that the array need not start the buffer.
SkipBeforeArray ==
    /\ ret.op = "new"
    /\ streams' = [streams EXCEPT ![1] = skip(streams[1], 1)]
    /\ ret' = Call("skip", 1, 1, Undefined)
    /\ UNCHANGED <<buffer, typedArray, recordVars>>

\* seek(start): back to where the write began.
SeekBack ==
    /\ ret.op \in {"write" \o kind \o "Array" : kind \in Kinds}
    /\ streams' = [streams EXCEPT ![1] = seek(streams[1], ret.arg)]
    /\ ret' = Call("seek", 1, ret.arg, Undefined)
    /\ UNCHANGED <<buffer, typedArray, recordVars>>

InitArray ==
    /\ buffer = Zeros(1 + 4 * MaxArrayLen)
    /\ streams = <<BinaryStream(buffer, Undefined, Undefined)>>
    /\ ret = Constructed(streams[1])
    /\ \E kind \in Kinds : \E v \in Arrays(kind) : typedArray = [kind |-> kind, v |-> v]
    /\ NoRecord

NextArray ==
    \/ SkipBeforeArray
    \/ WriteInt8Array
    \/ WriteInt16Array
    \/ WriteInt32Array
    \/ WriteUint8Array
    \/ WriteUint16Array
    \/ WriteUint32Array
    \/ SeekBack
    \/ ReadInt8Array
    \/ ReadInt16Array
    \/ ReadInt32Array
    \/ ReadUint8Array
    \/ ReadUint16Array
    \/ ReadUint32Array

SpecArray == InitArray /\ [][NextArray]_vars

(***************************************************************************)
(* SpecWithin: a stream over a whole buffer, and calls that each request   *)
(* no more bytes than remaining() at the time of the call.                 *)
(***************************************************************************)
\* Room for a 32-bit call.
WithinLen == BufLen + 1

InitWithin ==
    /\ buffer \in [1..WithinLen -> Alphabet]
    /\ streams = <<BinaryStream(buffer, Undefined, Undefined)>>
    /\ ret = Constructed(streams[1])
    /\ NoTypedArray /\ NoRecord

\* read(size) with size <= remaining(), and read() which asks for remaining().
ReadWithin ==
    \E size \in {Undefined} \cup 0..remaining(streams[1]), allowNulls \in BOOLEAN :
        Reads("read", 1, <<size, allowNulls>>,
              read(buffer, streams[1], size, allowNulls))

\* readUntilNull() with its terminator among the remaining bytes.
ReadUntilNullWithin ==
    /\ NullAhead(buffer, streams[1])
    /\ ReadUntilNull

SkipWithin ==
    \E bytes \in 0..remaining(streams[1]) :
        Reads("skip", 1, bytes, [data |-> Undefined, s |-> skip(streams[1], bytes)])

WriteWithin ==
    \E value \in {v \in WriteStrings : Len(v) <= remaining(streams[1])} :
        Writes("write", 1, value, write(buffer, streams[1], value))

\* The typed reads and writes, each with its width in bytes remaining.
TypedWithin ==
    \/ remaining(streams[1]) >= 1 /\ (ReadInt8 \/ ReadUint8 \/ WriteInt8 \/ WriteUint8)
    \/ remaining(streams[1]) >= 2 /\ (ReadInt16 \/ ReadUint16 \/ WriteInt16 \/ WriteUint16)
    \/ remaining(streams[1]) >= 4 /\ (ReadInt32 \/ ReadUint32 \/ WriteInt32 \/ WriteUint32)

NextWithin ==
    \/ ReadWithin
    \/ ReadUntilNullWithin
    \/ SkipWithin
    \/ WriteWithin
    \/ TypedWithin

SpecWithin == InitWithin /\ [][NextWithin]_vars

(***************************************************************************)
(* Record types.  A record's load and save are sequences of stream edits,  *)
(* one per field.  A row <<field, kind, n>> names the field, the stream    *)
(* method used for it and, for arrays and fixed-size strings, the count.   *)
(***************************************************************************)
\* A value computed once and then used by name, as a local variable is:
\* F(v) for the value v of x.
Bind(x, F(_)) == CHOOSE r \in {F(v) : v \in {x}} : TRUE

\* The stream method a load uses for a row: [data, s, returned].  A string
\* without a terminator ahead never returns.  A property that may be undefined
\* (kind optInt32) is <<>> when undefined and <<n>> when it holds n.
ReadRow(b, s, kind, n) ==
    LET Done(r) == [data |-> r.data, s |-> r.s, returned |-> TRUE]
    IN  CASE kind = "int32" -> Done(readInt32(b, s))
          [] kind = "uint32" -> Done(readUint32(b, s))
          [] kind = "float32" -> Done(readFloat32(b, s))
          [] kind = "optInt32" ->
                Bind(readInt32(b, s), LAMBDA r : Done([r EXCEPT !.data = <<@>>]))
          [] kind = "string" ->
                IF NullAhead(b, s) THEN Done(readUntilNull(b, s))
                ELSE [data |-> <<>>, s |-> s, returned |-> FALSE]
          [] kind = "chars" -> Done(read(b, s, n, FALSE))
          [] kind = "charsNulls" -> Done(read(b, s, n, TRUE))
          [] kind = "float32array" -> Done(readFloat32Array(b, s, n))
          [] kind = "int32array" -> Done(readInt32Array(b, s, n))
          [] kind = "uint8array" -> Done(readUint8Array(b, s, n))

\* The stream method a save uses for a row: [b, s].  A string is written
\* with its terminator appended, fixed-size characters as they are.
WriteRow(b, s, kind, value) ==
    CASE kind = "int32" -> writeInt32(b, s, value)
      [] kind = "uint32" -> writeUint32(b, s, value)
      [] kind = "float32" -> writeFloat32(b, s, value)
      [] kind = "optInt32" ->
            \* the conversion stores undefined into an Int32Array, where it is 0
            writeInt32(b, s, IF value = <<>> THEN 0 ELSE value[1])
      [] kind = "string" -> write(b, s, value \o <<0>>)
      [] kind = "chars" -> write(b, s, value)
      [] kind = "charsNulls" -> write(b, s, value)
      [] kind = "float32array" -> writeFloat32Array(b, s, value)
      [] kind = "int32array" -> writeInt32Array(b, s, value)
      [] kind = "uint8array" -> writeUint8Array(b, s, value)

\* A load in progress: the object being filled, the stream, whether every
\* call so far has returned, and whether a list count went beyond MaxCount.
Loading(o, s) == [object |-> o, s |-> s, returned |-> TRUE, beyond |-> FALSE]

\* this.field = stream.readX(): the load after the row's statement.
LoadRow(b, st, row) ==
    Bind(ReadRow(b, st.s, row[2], row[3]),
         LAMBDA r : [st EXCEPT !.object = IF r.returned
                                          THEN [@ EXCEPT ![row[1]] = r.data]
                                          ELSE @,
                               !.s = r.s,
                               !.returned = r.returned])

\* The rows from the i-th on are read in order into the object.
RECURSIVE LoadRowsFrom(_, _, _, _)
LoadRowsFrom(b, st, rows, i) ==
    IF i > Len(rows) \/ ~st.returned \/ st.beyond THEN st
    ELSE Bind(LoadRow(b, st, rows[i]), LAMBDA w : LoadRowsFrom(b, w, rows, i + 1))

LoadRows(b, st, rows) == LoadRowsFrom(b, st, rows, 1)

\* A save in progress is the buffer and the stream: [b, s].  The rows from the
\* i-th on are written in order.
RECURSIVE SaveRowsFrom(_, _, _, _)
SaveRowsFrom(st, o, rows, i) ==
    IF i > Len(rows) THEN st
    ELSE Bind(WriteRow(st.b, st.s, rows[i][2], o[rows[i][1]]),
              LAMBDA w : SaveRowsFrom(w, o, rows, i + 1))

SaveRows(st, o, rows) == SaveRowsFrom(st, o, rows, 1)

(***************************************************************************)
(* The records a War3MapW3i lists: Player, Force, the availability changes *)
(* and the random tables, with the byte length each reports.               *)
(***************************************************************************)
ElementRows(class) ==
    CASE class = "Player" ->
            << <<"id", "int32", 0>>, <<"type", "int32", 0>>, <<"race", "int32", 0>>,
               <<"isFixedStartPosition", "int32", 0>>, <<"name", "string", 0>>,
               <<"startLocation", "float32array", 2>>,
               <<"allyLowPriorities", "uint32", 0>>,
               <<"allyHighPriorities", "uint32", 0>> >>
      [] class = "Force" ->
            << <<"flags", "uint32", 0>>, <<"playerMasks", "uint32", 0>>,
               <<"name", "string", 0>> >>
      [] class = "UpgradeAvailabilityChange" ->
            << <<"playerFlags", "uint32", 0>>, <<"id", "chars", 4>>,
               <<"levelAffected", "int32", 0>>, <<"availability", "int32", 0>> >>
      [] class = "TechAvailabilityChange" ->
            << <<"playerFlags", "uint32", 0>>, <<"id", "chars", 4>> >>
      [] class = "RandomUnitTable" ->
            << <<"id", "int32", 0>>, <<"name", "string", 0>>,
               <<"positions", "int32", 0>>, <<"units", "uint32", 0>> >>
      [] class = "RandomItemTable" ->
            << <<"id", "int32", 0>>, <<"name", "string", 0>>,
               <<"sets", "uint32", 0>> >>
      [] class = "ECA" ->
            << <<"type", "int32", 0>>, <<"name", "string", 0>>,
               <<"isEnabled", "int32", 0>> >>

\* new Player(), new Force(), ...: every field at its default.
NewElement(class) ==
    LET rows == ElementRows(class)
        Default(row) ==
            CASE row[2] \in {"int32", "float32"} -> 0
              [] row[2] = "uint32" -> ToUint32(0)
              [] row[2] = "string" -> <<>>
              [] row[2] = "chars" -> [i \in 1..row[3] |-> 65]
              [] row[2] = "float32array" -> [i \in 1..row[3] |-> 0]
    IN  [f \in {rows[i][1] : i \in 1..Len(rows)} |->
            Default(rows[CHOOSE i \in 1..Len(rows) : rows[i][1] = f])]

\* CustomTextTrigger: a length, then that many characters of text, the last
\* of them the terminator; no characters for the length 0.
CustomTextTriggerLoad(b, s) ==
    Bind(readInt32(b, s),
         LAMBDA textLength :
            IF textLength.data # 0
            THEN Bind(read(b, textLength.s, textLength.data - 1, FALSE),
                      LAMBDA text : Loading([text |-> text.data], skip(text.s, 1)))
            ELSE Loading([text |-> <<>>], textLength.s))

CustomTextTriggerSave(st, e) ==
    IF e.text # <<>>
    THEN Bind(writeInt32(st.b, st.s, Len(e.text) + 1),
              LAMBDA w : write(w.b, w.s, e.text \o <<0>>))
    ELSE writeInt32(st.b, st.s, 0)

CustomTextTriggerByteLength(e) ==
    4 + (IF e.text # <<>> THEN Len(e.text) + 1 ELSE 0)

ElementLoad(class, b, s) ==
    IF class = "CustomTextTrigger" THEN CustomTextTriggerLoad(b, s)
    ELSE LoadRows(b, Loading(NewElement(class), s), ElementRows(class))

ElementSave(class, st, e) ==
    IF class = "CustomTextTrigger" THEN CustomTextTriggerSave(st, e)
    ELSE SaveRows(st, e, ElementRows(class))

ElementByteLength(class, e) ==
    CASE class = "CustomTextTrigger" -> CustomTextTriggerByteLength(e)
      [] class = "Player" -> 33 + Len(e.name)
      [] class = "Force" -> 9 + Len(e.name)
      [] class = "UpgradeAvailabilityChange" -> 16
      [] class = "TechAvailabilityChange" -> 8
      [] class = "RandomUnitTable" -> 13 + Len(e.name)
      [] class = "RandomItemTable" -> 9 + Len(e.name)
      [] class = "ECA" -> 9 + Len(e.name)

\* The largest count a list loop of the model runs for; a larger count read
\* from the buffer is a load the model does not follow.
MaxCount == 2

\* e = new Class(); e.load(stream); list[i] = e: element i replaces what the
\* list held at i.
LoadElement(b, st, field, class, i) ==
    Bind(ElementLoad(class, b, st.s),
         LAMBDA r :
            LET list == st.object[field]
                put == IF i < Len(list) THEN [list EXCEPT ![i + 1] = r.object]
                       ELSE Append(list, r.object)
            IN  [st EXCEPT !.object = IF r.returned
                                      THEN [@ EXCEPT ![field] = put]
                                      ELSE @,
                           !.s = r.s,
                           !.returned = r.returned])

\* for (i = 0; i < l; i++) ...
RECURSIVE LoadElements(_, _, _, _, _, _)
LoadElements(b, st, field, class, i, l) ==
    IF i >= l \/ ~st.returned THEN st
    ELSE Bind(LoadElement(b, st, field, class, i),
              LAMBDA w : LoadElements(b, w, field, class, i + 1, l))

\* The list loop, its count being the number l just read.
LoadList(b, st, field, class, l) ==
    IF ~st.returned \/ st.beyond THEN st
    ELSE IF l > MaxCount THEN [st EXCEPT !.beyond = TRUE]
    ELSE LoadElements(b, st, field, class, 0, l)

\* for (e of list) e.save(stream), from the i-th element on.
RECURSIVE SaveElements(_, _, _, _)
SaveElements(st, class, list, i) ==
    IF i > Len(list) THEN st
    ELSE Bind(ElementSave(class, st, list[i]),
              LAMBDA w : SaveElements(w, class, list, i + 1))

\* stream.writeUint32(list.length); for (e of list) e.save(stream)
SaveList(st, class, list) ==
    Bind(writeUint32(st.b, st.s, ToUint32(Len(list))),
         LAMBDA w : SaveElements(w, class, list, 1))

RECURSIVE SumByteLength(_, _)
SumByteLength(class, list) ==
    IF list = <<>> THEN 0
    ELSE ElementByteLength(class, Head(list)) + SumByteLength(class, Tail(list))

(***************************************************************************)
(* War3MapW3i.                                                             *)
(***************************************************************************)
\* The constructor without a buffer.
NewW3i ==
    [version |-> 0, saves |-> 0, editorVersion |-> 0,
     name |-> <<>>, author |-> <<>>, description |-> <<>>,
     recommendedPlayers |-> <<>>,
     cameraBounds |-> Zeros(8), cameraBoundsComplements |-> Zeros(4),
     playableSize |-> Zeros(2), flags |-> ToUint32(0), tileset |-> <<0>>,
     campaignBackground |-> 0,
     loadingScreenModel |-> <<>>, loadingScreenText |-> <<>>,
     loadingScreenTitle |-> <<>>, loadingScreenSubtitle |-> <<>>,
     loadingScreen |-> 0,
     prologueScreenModel |-> <<>>, prologueScreenText |-> <<>>,
     prologueScreenTitle |-> <<>>, prologueScreenSubtitle |-> <<>>,
     useTerrainFog |-> 0, fogHeight |-> Zeros(2), fogDensity |-> 0,
     fogColor |-> Zeros(4), globalWeather |-> 0, soundEnvironment |-> <<>>,
     lightEnvironmentTileset |-> <<0>>, waterVertexColor |-> Zeros(4),
     players |-> <<>>, forces |-> <<>>, upgradeAvailabilityChanges |-> <<>>,
     techAvailabilityChanges |-> <<>>, randomUnitTables |-> <<>>,
     randomItemTables |-> <<>>]

\* The rows of load, in the order of its statements: those up to the first
\* test of this.version, and those after it, for the version read.
W3iLoadHead ==
    << <<"version", "int32", 0>>, <<"saves", "int32", 0>>,
       <<"editorVersion", "int32", 0>>, <<"name", "string", 0>>,
       <<"author", "string", 0>>, <<"description", "string", 0>>,
       <<"recommendedPlayers", "string", 0>>,
       <<"cameraBounds", "float32array", 8>>,
       <<"cameraBoundsComplements", "int32array", 4>>,
       <<"playableSize", "int32array", 2>>, <<"flags", "uint32", 0>>,
       <<"tileset", "chars", 1>>, <<"campaignBackground", "int32", 0>> >>

W3iLoadTail(version) ==
    (IF version > 24 THEN << <<"loadingScreenModel", "string", 0>> >> ELSE <<>>)
    \o << <<"loadingScreenText", "string", 0>>, <<"loadingScreenTitle", "string", 0>>,
          <<"loadingScreenSubtitle", "string", 0>>, <<"loadingScreen", "int32", 0>> >>
    \o (IF version > 24 THEN << <<"prologueScreenModel", "string", 0>> >> ELSE <<>>)
    \o << <<"prologueScreenText", "string", 0>>, <<"prologueScreenTitle", "string", 0>>,
          <<"prologueScreenSubtitle", "string", 0>> >>
    \o (IF version > 24
        THEN << <<"useTerrainFog", "int32", 0>>, <<"fogHeight", "float32array", 2>>,
                <<"fogDensity", "float32", 0>>, <<"fogColor", "uint8array", 4>>,
                <<"globalWeather", "int32", 0>>, <<"soundEnvironment", "string", 0>>,
                <<"lightEnvironmentTileset", "charsNulls", 1>>,
                <<"waterVertexColor", "uint8array", 4>> >>
        ELSE <<>>)

\* The list loops of load, in order; the last only when version > 24.
W3iLoadLists(version) ==
    << <<"players", "Player">>, <<"forces", "Force">>,
       <<"upgradeAvailabilityChanges", "UpgradeAvailabilityChange">>,
       <<"techAvailabilityChanges", "TechAvailabilityChange">>,
       <<"randomUnitTables", "RandomUnitTable">> >>
    \o (IF version > 24 THEN << <<"randomItemTables", "RandomItemTable">> >> ELSE <<>>)

\* for (let i = 0, l = stream.readInt32(); i < l; i++) ...
W3iLoadList(b, st, field, class) ==
    IF ~st.returned \/ st.beyond THEN st
    ELSE Bind(readInt32(b, st.s),
              LAMBDA l : LoadList(b, [st EXCEPT !.s = l.s], field, class, l.data))

RECURSIVE W3iLoadListsFrom(_, _, _, _)
W3iLoadListsFrom(b, st, lists, i) ==
    IF i > Len(lists) THEN st
    ELSE Bind(W3iLoadList(b, st, lists[i][1], lists[i][2]),
              LAMBDA w : W3iLoadListsFrom(b, w, lists, i + 1))

\* load(buffer) on the object o.
W3iLoad(o, b) ==
    Bind(LoadRows(b, Loading(o, BinaryStream(b, Undefined, Undefined)), W3iLoadHead),
         LAMBDA s1 :
            Bind(LoadRows(b, s1, W3iLoadTail(s1.object.version)),
                 LAMBDA s2 :
                    W3iLoadListsFrom(b, s2, W3iLoadLists(s2.object.version), 1)))

W3iByteLength(o) ==
    LET size == 111 + Len(o.name) + Len(o.author) + Len(o.description)
                + Len(o.recommendedPlayers) + Len(o.loadingScreenText)
                + Len(o.loadingScreenTitle) + Len(o.loadingScreenSubtitle)
                + Len(o.prologueScreenText) + Len(o.prologueScreenTitle)
                + Len(o.prologueScreenSubtitle)
                + SumByteLength("Player", o.players)
                + SumByteLength("Force", o.forces)
                + Len(o.upgradeAvailabilityChanges) * 16
                + Len(o.techAvailabilityChanges) * 8
                + SumByteLength("RandomUnitTable", o.randomUnitTables)
    IN  IF o.version > 24
        THEN size + 36 + Len(o.loadingScreenModel) + Len(o.prologueScreenModel)
             + Len(o.soundEnvironment)
             + SumByteLength("RandomItemTable", o.randomItemTables)
        ELSE size

\* The rows of save, in the order of its statements, for this.version.
W3iSaveRows(version) ==
    << <<"version", "int32", 0>>, <<"saves", "int32", 0>>,
       <<"editorVersion", "int32", 0>>, <<"name", "string", 0>>,
       <<"author", "string", 0>>, <<"description", "string", 0>>,
       <<"recommendedPlayers", "string", 0>>,
       <<"cameraBounds", "float32array", 8>>,
       <<"cameraBoundsComplements", "int32array", 4>>,
       <<"playableSize", "int32array", 2>>, <<"flags", "uint32", 0>>,
       <<"tileset", "chars", 1>>, <<"campaignBackground", "int32", 0>> >>
    \o (IF version > 24 THEN << <<"loadingScreenModel", "string", 0>> >> ELSE <<>>)
    \o << <<"loadingScreenText", "string", 0>>, <<"loadingScreenTitle", "string", 0>>,
          <<"loadingScreenSubtitle", "string", 0>>, <<"loadingScreen", "int32", 0>> >>
    \o (IF version > 24 THEN << <<"prologueScreenModel", "string", 0>> >> ELSE <<>>)
    \o << <<"prologueScreenText", "string", 0>>, <<"prologueScreenTitle", "string", 0>>,
          <<"prologueScreenSubtitle", "string", 0>> >>
    \o (IF version > 24
        THEN << <<"useTerrainFog", "int32", 0>>, <<"fogHeight", "float32array", 2>>,
                <<"fogDensity", "float32", 0>>, <<"fogColor", "uint8array", 4>>,
                <<"globalWeather", "int32", 0>>, <<"soundEnvironment", "string", 0>>,
                <<"lightEnvironmentTileset", "charsNulls", 1>>,
                <<"waterVertexColor", "uint8array", 4>> >>
        ELSE <<>>)

\* The lists save writes, in order; the last only when version > 24.
W3iSaveLists(version) ==
    << <<"players", "Player">>, <<"forces", "Force">>,
       <<"upgradeAvailabilityChanges", "UpgradeAvailabilityChange">>,
       <<"techAvailabilityChanges", "TechAvailabilityChange">>,
       <<"randomUnitTables", "RandomUnitTable">> >>
    \o (IF version > 24 THEN << <<"randomItemTables", "RandomItemTable">> >> ELSE <<>>)

RECURSIVE W3iSaveListsFrom(_, _, _, _)
W3iSaveListsFrom(st, o, lists, i) ==
    IF i > Len(lists) THEN st
    ELSE Bind(SaveList(st, lists[i][2], o[lists[i][1]]),
              LAMBDA w : W3iSaveListsFrom(w, o, lists, i + 1))

\* save(): the buffer of getByteLength() bytes and the stream, after the last
\* write.
W3iSave(o) ==
    Bind(Zeros(W3iByteLength(o)),
         LAMBDA b0 :
            Bind(SaveRows([b |-> b0, s |-> BinaryStream(b0, Undefined, Undefined)],
                          o, W3iSaveRows(o.version)),
                 LAMBDA s1 : W3iSaveListsFrom(s1, o, W3iSaveLists(o.version), 1)))

(***************************************************************************)
(* Trigger.                                                                *)
(***************************************************************************)
\* The constructor.  It declares isCustom; isCustomText, which load and save
\* use, is undefined until a load defines it.
NewTrigger ==
    [name |-> <<>>, description |-> <<>>, isComment |-> 0, isEnabled |-> 0,
     isCustom |-> 0, isInitiallyOff |-> 0, runOnInitialization |-> 0,
     triggerCategory |-> 0, ecas |-> <<>>, isCustomText |-> <<>>]

\* A count read as an unsigned 32-bit number, as far as the list loops of the
\* model tell counts apart.
Count(u) == IF u.hi > 0 THEN MaxCount + 1 ELSE u.lo

\* Rows that read isComment at every version.
TriggerLoadRows_AlwaysComment(version) ==
    << <<"name", "string", 0>>, <<"description", "string", 0>>,
       <<"isComment", "int32", 0>>,
       <<"isEnabled", "int32", 0>>, <<"isCustomText", "optInt32", 0>>,
       <<"isInitiallyOff", "int32", 0>>, <<"runOnInitialization", "int32", 0>>,
       <<"triggerCategory", "int32", 0>> >>

TriggerLoadRows(version) ==
    << <<"name", "string", 0>>, <<"description", "string", 0>> >>
    \o (IF version = 7 THEN << <<"isComment", "int32", 0>> >> ELSE <<>>)
    \o << <<"isEnabled", "int32", 0>>, <<"isCustomText", "optInt32", 0>>,
          <<"isInitiallyOff", "int32", 0>>, <<"runOnInitialization", "int32", 0>>,
          <<"triggerCategory", "int32", 0>> >>

\* load(stream, version, argumentMap) on the object o, the stream being s.
TriggerLoad(o, b, s, version) ==
    Bind(LoadRows(b, Loading(o, s), TriggerLoadRows(version)),
         LAMBDA s1 :
            IF ~s1.returned THEN s1
            ELSE Bind(readUint32(b, s1.s),
                      LAMBDA l : LoadList(b, [s1 EXCEPT !.s = l.s], "ecas", "ECA",
                                          Count(l.data))))

TriggerSaveRows(version) ==
    << <<"name", "string", 0>>, <<"description", "string", 0>> >>
    \o (IF version = 7 THEN << <<"isComment", "int32", 0>> >> ELSE <<>>)
    \o << <<"isEnabled", "int32", 0>>, <<"isCustomText", "optInt32", 0>>,
          <<"isInitiallyOff", "int32", 0>>, <<"runOnInitialization", "int32", 0>>,
          <<"triggerCategory", "int32", 0>> >>

\* save(stream, version), the buffer and the stream being st.
TriggerSave(st, o, version) ==
    Bind(SaveRows(st, o, TriggerSaveRows(version)),
         LAMBDA s1 : SaveList(s1, "ECA", o.ecas))

TriggerByteLength(o, version) ==
    26 + Len(o.name) + Len(o.description)
    + (IF version = 7 THEN 4 ELSE 0)
    + SumByteLength("ECA", o.ecas)

(***************************************************************************)
(* War3MapWct.                                                             *)
(***************************************************************************)
\* The constructor without a buffer.  The trigger is null (<<>>) until a load
\* or the caller sets it (<<t>>).
NewWct == [version |-> 0, comment |-> <<>>, trigger |-> <<>>, triggers |-> <<>>]

\* if (this.version === 1) { this.comment = ...; this.trigger = new CustomTextTrigger(stream) }
WctLoadHeader(b, st) ==
    Bind(LoadRow(b, st, <<"comment", "string", 0>>),
         LAMBDA s1 :
            IF ~s1.returned THEN s1
            ELSE Bind(ElementLoad("CustomTextTrigger", b, s1.s),
                      LAMBDA r : [s1 EXCEPT !.object.trigger = <<r.object>>,
                                            !.s = r.s]))

\* load(buffer) on the object o.
WctLoad(o, b) ==
    Bind(LoadRow(b, Loading(o, BinaryStream(b, Undefined, Undefined)),
                 <<"version", "int32", 0>>),
         LAMBDA s1 :
            Bind(IF s1.object.version = 1 THEN WctLoadHeader(b, s1) ELSE s1,
                 LAMBDA s2 :
                    IF ~s2.returned THEN s2
                    ELSE Bind(readUint32(b, s2.s),
                              LAMBDA l : LoadList(b, [s2 EXCEPT !.s = l.s], "triggers",
                                                  "CustomTextTrigger", Count(l.data)))))

\* this.trigger.getByteLength() and this.trigger.save(stream) on a null
\* trigger raise a TypeError.
WctThrows(o) == o.version = 1 /\ o.trigger = <<>>

\* getByteLength(), where it does not throw.
WctByteLength(o) ==
    8 + (IF o.version = 1
         THEN Len(o.comment) + 1 + CustomTextTriggerByteLength(o.trigger[1])
         ELSE 0)
      + SumByteLength("CustomTextTrigger", o.triggers)

\* if (this.version === 1) { stream.write(`${this.comment}\0`); this.trigger.save(stream) }
WctSaveHeader(st, o) ==
    Bind(write(st.b, st.s, o.comment \o <<0>>),
         LAMBDA w : CustomTextTriggerSave(w, o.trigger[1]))

\* save(), where it does not throw: the buffer of getByteLength() bytes and
\* the stream, after the last write.
WctSave(o) ==
    Bind(Zeros(WctByteLength(o)),
         LAMBDA b0 :
            Bind(writeInt32(b0, BinaryStream(b0, Undefined, Undefined), o.version),
                 LAMBDA s1 :
                    Bind(IF o.version = 1 THEN WctSaveHeader(s1, o) ELSE s1,
                         LAMBDA s2 : SaveList(s2, "CustomTextTrigger", o.triggers))))

(***************************************************************************)
(* The caller of a record: it constructs the object, stores into its       *)
(* fields, saves it, and loads what was saved.                             *)
(***************************************************************************)
\* What a call on a record left behind.  A call that loops forever has not
\* returned; a call that raised an error threw.
RecordCall(op, arg, data, returned, threw) ==
    [op |-> op, sid |-> 0, pre |-> <<>>, arg |-> arg, data |-> data,
     returned |-> returned, threw |-> threw]

\* The caller goes on only after a call that returned normally.
Returned == ret.returned /\ ~ret.threw

\* The most field stores the caller makes on one object.
MaxEdits == 2

StringSamples == {<<65, 66>>}

\* The fields the caller stores into, some read and written at every version
\* and some only when version > 24.
W3iStrings ==
    {"name", "loadingScreenModel", "prologueScreenSubtitle", "soundEnvironment"}

W3iInts == {"saves", "useTerrainFog"}

W3iLists ==
    { <<"players", "Player">>,
      <<"upgradeAvailabilityChanges", "UpgradeAvailabilityChange">>,
      <<"randomItemTables", "RandomItemTable">> }

\* The stores the caller makes: <<field, value>>.
W3iEdits ==
    ({"version"} \X {24, 25})
    \cup (W3iInts \X {-2147483647 - 1})
    \cup (W3iStrings \X StringSamples)
    \cup ({"flags"} \X {ToUint32(-1)})
    \cup ({"tileset", "lightEnvironmentTileset"} \X {<<76>>})
    \cup ({"fogDensity"} \X {1065353216})
    \cup ({"cameraBounds"} \X {[i \in 1..8 |-> IF i = 1 THEN -1082130432 ELSE 0]})
    \cup ({"cameraBoundsComplements"} \X {<<-2, 0, 0, 0>>, <<32768, 0, 0, 0>>})
    \cup ({"playableSize"} \X {<<64, 96>>})
    \cup ({"fogColor"} \X {<<255, 0, 0, 128>>})

\* The elements the caller pushes to a list.
ElementSamples(class) ==
    IF class \in {"Player", "ECA"}
    THEN {[NewElement(class) EXCEPT !.name = <<65, 66>>]}
    ELSE {NewElement(class)}

InitW3i ==
    /\ buffer = <<>> /\ streams = <<>> /\ NoTypedArray
    /\ object = NewW3i /\ saved = <<>> /\ edits = 0
    /\ ret = RecordCall("new", Undefined, Undefined, TRUE, FALSE)

\* object.field = value
SetW3i ==
    /\ Returned /\ edits < MaxEdits
    /\ \E e \in W3iEdits : object' = [object EXCEPT ![e[1]] = e[2]]
    /\ edits' = edits + 1
    /\ ret' = RecordCall("set", Undefined, Undefined, TRUE, FALSE)
    /\ UNCHANGED <<buffer, streams, typedArray, saved>>

\* object.list.push(element)
PushW3i ==
    /\ Returned /\ edits < MaxEdits
    /\ \E l \in W3iLists : \E e \in ElementSamples(l[2]) :
          /\ Len(object[l[1]]) < MaxCount
          /\ object' = [object EXCEPT ![l[1]] = Append(@, e)]
    /\ edits' = edits + 1
    /\ ret' = RecordCall("push", Undefined, Undefined, TRUE, FALSE)
    /\ UNCHANGED <<buffer, streams, typedArray, saved>>

\* buffer = object.save(): the call leaves the number of bytes written, next
\* to what getByteLength() gave.
SaveW3i ==
    /\ Returned
    /\ \E r \in {W3iSave(object)} :
           /\ buffer' = r.b
           /\ streams' = <<r.s>>
           /\ ret' = RecordCall("save", W3iByteLength(object), r.s.index, TRUE, FALSE)
    /\ saved' = object
    /\ UNCHANGED <<typedArray, object, edits>>

\* The state a load of the saved buffer leaves, into the object o.
LoadedW3i(op, o) ==
    \E r \in {W3iLoad(o, buffer)} :
       /\ ~r.beyond
       /\ object' = r.object
       /\ streams' = <<r.s>>
       /\ ret' = RecordCall(op, Undefined, r.s.index, r.returned, FALSE)

\* object = new War3MapW3i(buffer)
NewW3iFromBuffer ==
    /\ Returned /\ saved # <<>>
    /\ LoadedW3i("new War3MapW3i(buffer)", NewW3i)
    /\ UNCHANGED <<buffer, typedArray, saved, edits>>

\* object.load(buffer)
LoadW3i ==
    /\ Returned /\ saved # <<>>
    /\ LoadedW3i("load", object)
    /\ UNCHANGED <<buffer, typedArray, saved, edits>>

NextW3i ==
    \/ SetW3i
    \/ PushW3i
    \/ SaveW3i
    \/ NewW3iFromBuffer
    \/ LoadW3i

SpecW3i == InitW3i /\ [][NextW3i]_vars

(***************************************************************************)
(* SpecTrigger: a Trigger is constructed, stored into, saved to a stream   *)
(* at a version, and loaded from what was saved at that version.           *)
(***************************************************************************)
TriggerVersions == {4, 7}

TriggerEdits ==
    ({"name"} \X StringSamples)
    \cup ({"description"} \X {<<67>>})
    \cup ({"isComment", "isEnabled", "isCustom", "isInitiallyOff",
           "runOnInitialization"} \X {1})
    \cup ({"triggerCategory"} \X {-2147483647 - 1, 32768})

InitTrigger ==
    /\ buffer = <<>> /\ streams = <<>> /\ NoTypedArray
    /\ object = NewTrigger /\ saved = <<>> /\ edits = 0
    /\ ret = RecordCall("new", Undefined, Undefined, TRUE, FALSE)

\* trigger.field = value
SetTrigger ==
    /\ Returned /\ edits < MaxEdits
    /\ \E e \in TriggerEdits : object' = [object EXCEPT ![e[1]] = e[2]]
    /\ edits' = edits + 1
    /\ ret' = RecordCall("set", Undefined, Undefined, TRUE, FALSE)
    /\ UNCHANGED <<buffer, streams, typedArray, saved>>

\* trigger.ecas.push(eca)
PushTrigger ==
    /\ Returned /\ edits < MaxEdits
    /\ Len(object.ecas) < MaxCount
    /\ \E e \in ElementSamples("ECA") :
          object' = [object EXCEPT !.ecas = Append(@, e)]
    /\ edits' = edits + 1
    /\ ret' = RecordCall("push", Undefined, Undefined, TRUE, FALSE)
    /\ UNCHANGED <<buffer, streams, typedArray, saved>>

\* trigger.save(stream, version), the stream being a new one on a buffer of
\* getByteLength(version) bytes: the call leaves the number of bytes written.
SaveTrigger ==
    /\ Returned
    /\ \E version \in TriggerVersions :
       \E b0 \in {Zeros(TriggerByteLength(object, version))} :
       \E r \in {TriggerSave([b |-> b0, s |-> BinaryStream(b0, Undefined, Undefined)],
                             object, version)} :
           /\ buffer' = r.b
           /\ streams' = <<r.s>>
           /\ ret' = RecordCall("save", version, r.s.index, TRUE, FALSE)
           /\ saved' = [record |-> object, version |-> version]
    /\ UNCHANGED <<typedArray, object, edits>>

\* trigger = new Trigger(); trigger.load(stream, version), the stream being a
\* new one on the saved buffer and the version the one it was saved at.
LoadTrigger ==
    /\ Returned /\ saved # <<>>
    /\ \E r \in {TriggerLoad(NewTrigger, buffer,
                             BinaryStream(buffer, Undefined, Undefined), saved.version)} :
           /\ ~r.beyond
           /\ object' = r.object
           /\ streams' = <<r.s>>
           /\ ret' = RecordCall("load", saved.version, r.s.index, r.returned, FALSE)
    /\ UNCHANGED <<buffer, typedArray, saved, edits>>

NextTrigger ==
    \/ SetTrigger
    \/ PushTrigger
    \/ SaveTrigger
    \/ LoadTrigger

SpecTrigger == InitTrigger /\ [][NextTrigger]_vars

(***************************************************************************)
(* SpecWct: a War3MapWct is constructed, stored into, saved, and loaded    *)
(* from what was saved.                                                    *)
(***************************************************************************)
CustomTextTriggerSamples == {[text |-> <<>>], [text |-> <<65, 66>>]}

WctEdits ==
    ({"version"} \X {1, 2})
    \cup ({"comment"} \X StringSamples)
    \cup ({"trigger"} \X {<<e>> : e \in CustomTextTriggerSamples})

InitWct ==
    /\ buffer = <<>> /\ streams = <<>> /\ NoTypedArray
    /\ object = NewWct /\ saved = <<>> /\ edits = 0
    /\ ret = RecordCall("new", Undefined, Undefined, TRUE, FALSE)

\* object.field = value
SetWct ==
    /\ Returned /\ edits < MaxEdits
    /\ \E e \in WctEdits : object' = [object EXCEPT ![e[1]] = e[2]]
    /\ edits' = edits + 1
    /\ ret' = RecordCall("set", Undefined, Undefined, TRUE, FALSE)
    /\ UNCHANGED <<buffer, streams, typedArray, saved>>

\* object.triggers.push(trigger)
PushWct ==
    /\ Returned /\ edits < MaxEdits
    /\ Len(object.triggers) < MaxCount
    /\ \E e \in CustomTextTriggerSamples :
          object' = [object EXCEPT !.triggers = Append(@, e)]
    /\ edits' = edits + 1
    /\ ret' = RecordCall("push", Undefined, Undefined, TRUE, FALSE)
    /\ UNCHANGED <<buffer, streams, typedArray, saved>>

\* buffer = object.save(): the call leaves the number of bytes written, next
\* to what getByteLength() gave, or it throws.
SaveWct ==
    /\ Returned
    /\ IF WctThrows(object)
       THEN /\ ret' = RecordCall("save", Undefined, Undefined, FALSE, TRUE)
            /\ UNCHANGED <<buffer, streams, saved>>
       ELSE \E r \in {WctSave(object)} :
               /\ buffer' = r.b
               /\ streams' = <<r.s>>
               /\ ret' = RecordCall("save", WctByteLength(object), r.s.index, TRUE, FALSE)
               /\ saved' = object
    /\ UNCHANGED <<typedArray, object, edits>>

\* The state a load of the saved buffer leaves, into the object o.
LoadedWct(op, o) ==
    \E r \in {WctLoad(o, buffer)} :
       /\ ~r.beyond
       /\ object' = r.object
       /\ streams' = <<r.s>>
       /\ ret' = RecordCall(op, Undefined, r.s.index, r.returned, FALSE)

\* object = new War3MapWct(buffer)
NewWctFromBuffer ==
    /\ Returned /\ saved # <<>>
    /\ LoadedWct("new War3MapWct(buffer)", NewWct)
    /\ UNCHANGED <<buffer, typedArray, saved, edits>>

\* object.load(buffer)
LoadWct ==
    /\ Returned /\ saved # <<>>
    /\ LoadedWct("load", object)
    /\ UNCHANGED <<buffer, typedArray, saved, edits>>

NextWct ==
    \/ SetWct
    \/ PushWct
    \/ SaveWct
    \/ NewWctFromBuffer
    \/ LoadWct

SpecWct == InitWct /\ [][NextWct]_vars

(***************************************************************************)
(* What the claims speak of, stated on the buffer itself.                  *)
(***************************************************************************)
\* The stream covers the whole buffer.
WholeBuffer(s) == s.byteOffset = 0 /\ s.length = Len(buffer)

\* The n bytes of the stream's window from position from on.
BytesAt(b, s, from, n) == [i \in 1..n |-> b[s.byteOffset + from + i]]

NonZero(x) == x # 0

ZeroAhead(b, s) ==
    \E j \in s.index..(s.length - 1) : b[s.byteOffset + j + 1] = 0

FirstZero(b, s) ==
    CHOOSE j \in s.index..(s.length - 1) :
        /\ b[s.byteOffset + j + 1] = 0
        /\ \A k \in s.index..(j - 1) : b[s.byteOffset + k + 1] # 0

\* The positions of the buffer (from 1) outside the stream's window.
Outside(b, s) ==
    {p \in 1..Len(b) : p - 1 < s.byteOffset \/ p - 1 >= s.byteOffset + s.length}

\* The buffer with every byte outside the stream's window changed.
Masked(b, s) ==
    [p \in 1..Len(b) |-> IF p \in Outside(b, s) THEN 255 - b[p] ELSE b[p]]

\* What the call of the record c returns when run on the buffer b.
DataOf(b, c) ==
    CASE c.op = "read" -> read(b, c.pre, c.arg[1], c.arg[2]).data
      [] c.op = "readUntilNull" -> readUntilNull(b, c.pre).data
      [] c.op = "readInt8" -> readInt8(b, c.pre).data
      [] c.op = "readInt16" -> readInt16(b, c.pre).data
      [] c.op = "readInt32" -> readInt32(b, c.pre).data
      [] c.op = "readUint8" -> readUint8(b, c.pre).data
      [] c.op = "readUint16" -> readUint16(b, c.pre).data
      [] c.op = "readUint32" -> readUint32(b, c.pre).data
      [] OTHER -> Undefined

(***************************************************************************)
(* C6.  read(size, allowNulls) with 0 <= size <= remaining() advances the  *)
(* index by exactly size and returns the characters of those size bytes in *)
(* order, without the zero bytes unless allowNulls.  Stated for a stream   *)
(* over the whole buffer.  The code takes size 0 for "no size given" and   *)
(* reads everything that remains.                                          *)
(***************************************************************************)
C6_ReadConsumesSize ==
    (/\ ret.op = "read"
     /\ WholeBuffer(ret.pre)
     /\ ret.arg[1] # Undefined
     /\ ret.arg[1] <= remaining(ret.pre))
    => LET size == ret.arg[1]
           bytes == BytesAt(buffer, ret.pre, ret.pre.index, size)
       IN  /\ streams[ret.sid].index = ret.pre.index + size
           /\ ret.data = IF ret.arg[2] THEN bytes ELSE SelectSeq(bytes, NonZero)

(***************************************************************************)
(* C7.  With a zero byte at or after the index inside the window,          *)
(* readUntilNull() returns exactly the characters before the first such    *)
(* byte and leaves the index one past it.                                  *)
(***************************************************************************)
C7_ReadUntilNullStopsAtTerminator ==
    (ret.op = "readUntilNull" /\ ZeroAhead(buffer, ret.pre))
    => LET z == FirstZero(buffer, ret.pre)
       IN  /\ ret.returned
           /\ ret.data = BytesAt(buffer, ret.pre, ret.pre.index, z - ret.pre.index)
           /\ streams[ret.sid].index = z + 1

\* A string of at least one character was read and bytes of the window
\* remain after its terminator.
C7_Witness ==
    /\ ret.op = "readUntilNull" /\ ret.returned
    /\ Len(ret.data) >= 1
    /\ streams[ret.sid].index < streams[ret.sid].length

(***************************************************************************)
(* C8.  substream(L) leaves the parent's index and the buffer as they were *)
(* and returns a stream with index 0 whose byte j is the byte the parent   *)
(* reads at its index + j, also for a parent that is itself a substream at *)
(* a non-zero offset.  The code places the window at the parent's index    *)
(* counted from the start of the buffer, not of the parent's window.       *)
(***************************************************************************)
C8_SubstreamStartsAtParentIndex ==
    ret.op = "substream"
    => LET parent == streams[1]
           child == streams[2]
       IN  /\ parent = ret.pre
           /\ buffer = Distinct(BufLen)
           /\ child.index = 0
           /\ \A j \in 0..(ret.arg - 1) :
                  parent.index + j < parent.length
                  => U8(buffer, child, j) = U8(buffer, parent, parent.index + j)

(***************************************************************************)
(* C9.  A substream over [K, K+L) never changes a byte of the buffer       *)
(* outside that range and never returns data taken from outside it: every  *)
(* call leaves the outside bytes as they were and returns what it returns  *)
(* when the outside bytes are different.                                   *)
(***************************************************************************)
C9_SubstreamIsolated ==
    [][LET c == ret'
       IN  /\ \A p \in Outside(buffer, c.pre) : buffer'[p] = buffer[p]
           /\ c.returned => c.data = DataOf(Masked(buffer, c.pre), c)]_vars

\* A substream inside the buffer wrote, or read, past the end of its window.
C9_Witness ==
    /\ ret.pre.byteOffset > 0
    /\ ret.pre.byteOffset + ret.pre.length < Len(buffer)
    /\ \/ ret.op = "write" /\ ret.pre.index + Len(ret.arg) > ret.pre.length
       \/ ret.op = "readInt16" /\ ret.pre.index + 2 > ret.pre.length

(***************************************************************************)
(* C10.  For a substream of byte length L, remaining() is L minus its      *)
(* index, and read() without a size returns and consumes the bytes from    *)
(* the index to the end of the L-byte window.  The code sets byteLength to *)
(* the length of the whole buffer.                                         *)
(***************************************************************************)
C10_SubstreamRemaining ==
    Len(streams) = 2
    => LET child == streams[2]
       IN  /\ remaining(child) = child.length - child.index
           /\ (ret.op = "read" /\ ret.sid = 2 /\ ret.arg[1] = Undefined
                /\ ret.pre.index <= ret.pre.length)
              => /\ child.index = child.length
                 /\ ret.data =
                      SelectSeq(BytesAt(buffer, ret.pre, ret.pre.index,
                                        ret.pre.length - ret.pre.index), NonZero)

(***************************************************************************)
(* C5.  For each integer element kind X and every array v of values of X,  *)
(* writeXArray(v), a seek back to the start and readXArray(v.length)       *)
(* return an array equal to v, and both edits advance the index by         *)
(* v.length times the element width.  readInt32Array builds each element   *)
(* from two bytes only.                                                    *)
(***************************************************************************)
C5_ArrayRoundTrip ==
    /\ ret.op \in {"write" \o kind \o "Array" : kind \in Kinds}
       => streams[1].index = ret.pre.index + Len(typedArray.v) * Width(typedArray.kind)
    /\ ret.op \in {"read" \o kind \o "Array" : kind \in Kinds}
       => /\ streams[1].index = ret.pre.index + Len(typedArray.v) * Width(typedArray.kind)
          /\ ret.data = typedArray.v

\* The fields of a War3MapW3i that load and save touch only when version > 24.
W3iGated ==
    {"loadingScreenModel", "prologueScreenModel", "useTerrainFog", "fogHeight",
     "fogDensity", "fogColor", "globalWeather", "soundEnvironment",
     "lightEnvironmentTileset", "waterVertexColor", "randomItemTables"}

\* C1: when War3MapW3i.save() finishes, the stream index (the number of bytes
\* it wrote) equals getByteLength() of the object saved, whatever state the
\* object was brought to by construction, field stores and loads.
C1_SaveWritesByteLength ==
    ret.op = "save" => ret.data = ret.arg /\ ret.data = Len(buffer)

\* C2: for R whose version-gated fields hold their defaults when version <= 24
\* (and whose one-character tileset is not the NUL character), loading save(R)
\* into a freshly constructed War3MapW3i yields an object equal to R field for
\* field.
C2_LoadSaveRoundTrip ==
    (/\ ret.op = "new War3MapW3i(buffer)"
     /\ Len(saved.tileset) = 1 /\ saved.tileset # <<0>>
     /\ saved.version <= 24 => \A f \in W3iGated : saved[f] = NewW3i[f])
    => ret.returned /\ object = saved

\* The fields the Trigger constructor declares.
TriggerDeclared ==
    {"name", "description", "isComment", "isEnabled", "isCustom",
     "isInitiallyOff", "runOnInitialization", "triggerCategory", "ecas"}

\* C3: after save(stream, v) of a Trigger R (isComment at its default when
\* v # 7) and load(stream, v) into a fresh Trigger, every field the constructor
\* declares has the value it has in R, and load has consumed exactly the bytes
\* save wrote, which number getByteLength(v).
C3_TriggerRoundTrip ==
    (/\ ret.op = "load"
     /\ saved.version # 7 => saved.record.isComment = 0)
    => /\ ret.returned
       /\ \A f \in TriggerDeclared : object[f] = saved.record[f]
       /\ ret.data = Len(buffer)
       /\ Len(buffer) = TriggerByteLength(saved.record, saved.version)

\* C4: War3MapWct.save() completes without error and writes exactly
\* getByteLength() bytes, whatever state construction, field stores and loads
\* brought the object to, at version 1 and at every other version.
C4_WctSaveCompletes ==
    ret.op = "save" => ~ret.threw /\ ret.data = ret.arg /\ ret.data = Len(buffer)

\* The number of bytes the call recorded in ret asked for.
Requested ==
    CASE ret.op = "read" ->
            IF ret.arg[1] = Undefined THEN remaining(ret.pre) ELSE ret.arg[1]
      [] ret.op = "skip" -> ret.arg
      [] ret.op = "write" -> Len(ret.arg)
      [] ret.op = "readUntilNull" -> Len(ret.data) + 1
      [] ret.op \in {"readInt8", "readUint8", "writeInt8", "writeUint8"} -> 1
      [] ret.op \in {"readInt16", "readUint16", "writeInt16", "writeUint16"} -> 2
      [] ret.op \in {"readInt32", "readUint32", "writeInt32", "writeUint32"} -> 4
      [] ret.op = "new" -> 0

\* C11: on a stream over a whole buffer, after calls that each asked for at
\* most remaining() bytes, 0 <= index <= byteLength, tell() + remaining() is
\* byteLength, and the last call moved the index by the bytes it asked for.
C11_IndexWithinByteLength ==
    /\ 0 <= streams[1].index /\ streams[1].index <= streams[1].byteLength
    /\ tell(streams[1]) + remaining(streams[1]) = streams[1].byteLength
    /\ streams[1].index = ret.pre.index + Requested

(***************************************************************************)
(* TokenStream (src/common/tokenstream.js).  The text is the sequence of   *)
(* the character codes of this.buffer; buffer[i + 1] is the character at   *)
(* the JavaScript index i.  A token is NoToken (undefined) or <<string>>.  *)
(***************************************************************************)
TAB == 9
LF == 10
CR == 13
SPACE == 32
QUOTE == 34
COMMA == 44
SLASH == 47
COLON == 58
OPEN == 123
CLOSE == 125

NoToken == <<>>
Token(string) == <<string>>

\* The constructor: buffer || '', index 0, ident 0.
TokenStream == [index |-> 0, ident |-> 0]

\* The separators without the comma.
IsSeparator_NoComma(c) == c \in {SPACE, TAB, LF, CR, COLON}

\* c === ' ' || c === ',' || c === '\t' || c === '\n' || c === ':' || c === '\r'
IsSeparator(c) == c \in {SPACE, COMMA, TAB, LF, COLON, CR}

IsBrace(c) == c \in {OPEN, CLOSE}

\* A pushed-back character that is consumed all the same.
PushBack_Consumed(index) == index

\* this.index-- : the character just consumed is read again by the next call.
PushBack(index) == index - 1

\* A string that a space closes as well.
ClosesString_OrSpace(c) == c = QUOTE \/ c = SPACE

\* c === '"' inside a string.
ClosesString(c) == c = QUOTE

\* c === '/' && this.buffer[this.index] === '/', index already advanced.
StartsComment(text, c, index) ==
    c = SLASH /\ index < Len(text) /\ text[index + 1] = SLASH

\* The while loop of read(): index is this.index before the iteration.
RECURSIVE ReadLoop(_, _, _, _, _)
ReadLoop(text, index, inComment, inString, token) ==
    IF ~(index < Len(text))
    THEN [token |-> NoToken, index |-> index]
    ELSE LET c == text[index + 1]
             next == index + 1
         IN  IF inComment
             THEN ReadLoop(text, next, c # LF, inString, token)
             ELSE IF inString
             THEN IF ClosesString(c)
                  THEN [token |-> Token(token), index |-> next]
                  ELSE ReadLoop(text, next, inComment, inString, Append(token, c))
             ELSE IF IsSeparator(c)
             THEN IF Len(token) > 0
                  THEN [token |-> Token(token), index |-> next]
                  ELSE ReadLoop(text, next, inComment, inString, token)
             ELSE IF IsBrace(c)
             THEN IF Len(token) > 0
                  THEN [token |-> Token(token), index |-> PushBack(next)]
                  ELSE [token |-> Token(<<c>>), index |-> next]
             ELSE IF StartsComment(text, c, next)
             THEN IF Len(token) > 0
                  THEN [token |-> Token(token), index |-> PushBack(next)]
                  ELSE ReadLoop(text, next, TRUE, inString, token)
             ELSE IF c = QUOTE
             THEN IF Len(token) > 0
                  THEN [token |-> Token(token), index |-> PushBack(next)]
                  ELSE ReadLoop(text, next, inComment, TRUE, token)
             ELSE ReadLoop(text, next, inComment, inString, Append(token, c))

\* read(): the token and the index the call leaves.
TokenRead(text, index) == ReadLoop(text, index, FALSE, FALSE, <<>>)

(***************************************************************************)
(* SpecToken: one TokenStream over a text and the read() calls on it.      *)
(* saved is the log of the calls: the token each returned and the index    *)
(* before and after it.                                                    *)
(***************************************************************************)
MaxText == 4
MaxReads == 8

\* A token character, the separators, the braces, a slash and a quote.
TokenAlphabet == {97, SPACE, COMMA, LF, OPEN, CLOSE, SLASH, QUOTE}

Texts == UNION {[1..n -> TokenAlphabet] : n \in 0..MaxText}

\* The example of the documentation of read().
Example ==
    <<
       72, 101, 97, 100, 101, 114, 32, 34, 65, 32, 83, 116, 114, 105,
       110, 103, 34, 32, 123, 10, 9, 78, 97, 109, 101, 32, 86, 97, 108,
       117, 101, 44, 32, 47, 47, 32, 65, 32, 67, 111, 109, 109, 101, 110,
       116, 10, 125 >>

\* An empty string and a string of separators, braces and slashes: "" "{ a, //b: }" c
Quotations ==
    << 34, 34, 32, 34, 123, 32, 97, 44, 32, 47, 47, 98, 58, 32,
       125, 34, 32, 99 >>

ExampleTokens ==
    << <<72, 101, 97, 100, 101, 114>>,
       <<65, 32, 83, 116, 114, 105, 110, 103>>,
       <<123>>,
       <<78, 97, 109, 101>>,
       <<86, 97, 108, 117, 101>>,
       <<125>> >>

TokenCall(op, arg, data) ==
    [op |-> op, sid |-> 1, pre |-> streams[1], arg |-> arg, data |-> data,
     returned |-> TRUE]

\* new TokenStream(buffer): no token read yet.
TokenConstructed ==
    [op |-> "new", sid |-> 1, pre |-> TokenStream, arg |-> Undefined,
     data |-> NoToken, returned |-> TRUE]

InitToken ==
    /\ buffer \in Texts \cup {Example, Quotations}
    /\ streams = <<TokenStream>>
    /\ ret = TokenConstructed
    /\ NoTypedArray /\ NoRecord

\* stream.read()
ReadToken ==
    /\ Len(saved) < MaxReads
    /\ \E r \in {TokenRead(buffer, streams[1].index)} :
          /\ streams' = [streams EXCEPT ![1].index = r.index]
          /\ ret' = TokenCall("read", Undefined, r.token)
          /\ saved' = Append(saved, [token |-> r.token, from |-> streams[1].index,
                                     to |-> r.index])
    /\ UNCHANGED <<buffer, typedArray, object, edits>>

NextToken == ReadToken

SpecToken == InitToken /\ [][NextToken]_vars

(***************************************************************************)
(* The lexical classes of a text, position by position: what each          *)
(* character is by the rules that read() is documented to follow.          *)
(***************************************************************************)
Blank == {SPACE, TAB, CR, LF, COMMA, COLON}

RECURSIVE ClassFrom(_, _, _)
ClassFrom(text, p, mode) ==
    IF p > Len(text) THEN <<>>
    ELSE LET c == text[p]
             class ==
                 CASE mode = "comment" -> "comment"
                   [] mode = "string" -> IF c = QUOTE THEN "close" ELSE "text"
                   [] OTHER ->
                        IF c = QUOTE THEN "open"
                        ELSE IF c = SLASH /\ p < Len(text) /\ text[p + 1] = SLASH
                        THEN "comment"
                        ELSE IF c \in Blank THEN "blank"
                        ELSE IF c \in {OPEN, CLOSE} THEN "brace"
                        ELSE "char"
             after ==
                 CASE class = "comment" -> IF c = LF THEN "normal" ELSE "comment"
                   [] class \in {"open", "text"} -> "string"
                   [] OTHER -> "normal"
         IN  <<class>> \o ClassFrom(text, p + 1, after)

Classes(text) == ClassFrom(text, 1, "normal")

\* The characters of text at the positions of from + 1 .. to whose class is in set.
Chosen(text, classes, from, to, set) ==
    LET kept == SelectSeq([k \in 1..(to - from) |-> from + k],
                          LAMBDA q : classes[q] \in set)
    IN  [k \in 1..Len(kept) |-> text[kept[k]]]

\* The calls of the log that returned a token, told apart by the last
\* character they consumed.
Quoted(classes, call) == call.token # NoToken /\ classes[call.to] = "close"
Unquoted(classes, call) == call.token # NoToken /\ classes[call.to] # "close"
BraceCall(classes, call) ==
    call.token # NoToken /\ classes[call.to] = "brace" /\ Len(call.token[1]) = 1
    /\ call.token[1][1] \in {OPEN, CLOSE}

C14_UndefinedOnlyAtEnd ==
    (ret.op = "read" /\ ret.data = NoToken) =>
        LET classes == Classes(buffer)
        IN  \A q \in (ret.pre.index + 1)..Len(buffer) :
                classes[q] \notin {"char", "brace", "close"}

\* C15: every brace outside strings and comments is returned once, in order,
\* as a single-character token; an unquoted token is exactly the token
\* characters its call consumed, so it holds no separator, no brace next to
\* other characters and nothing of a comment, and loses no character.
C15_BracesAndComments ==
    LET classes == Classes(buffer)
        braces == SelectSeq(saved, LAMBDA call : BraceCall(classes, call))
    IN  /\ [k \in 1..Len(braces) |-> braces[k].token[1][1]]
              = Chosen(buffer, classes, 0, streams[1].index, {"brace"})
        /\ \A k \in 1..Len(saved) :
              /\ saved[k].from = IF k = 1 THEN 0 ELSE saved[k - 1].to
              /\ Unquoted(classes, saved[k]) =>
                    /\ saved[k].token[1] = Chosen(buffer, classes, saved[k].from,
                                                  saved[k].to, {"char", "brace"})
                    /\ \/ BraceCall(classes, saved[k])
                       \/ \A j \in 1..Len(saved[k].token[1]) :
                             saved[k].token[1][j] \notin Blank \cup {OPEN, CLOSE}

\* C15 witness: a token written directly before a brace and one written
\* directly before a comment were returned, and the brace after them.
C15_TokenThenBrace ==
    LET classes == Classes(buffer)
    IN  \E k \in 1..Len(saved) :
            /\ k > 1 /\ BraceCall(classes, saved[k])
            /\ Unquoted(classes, saved[k - 1]) /\ classes[saved[k - 1].to] = "char"
            /\ \E q \in 1..Len(buffer) : classes[q] = "comment"

EndsBlock(token) == token = Token(<<CLOSE>>)

\* The generator after it read token and tested the loop condition.
Suspended(token) ==
    [pc |-> IF EndsBlock(token) THEN "done" ELSE "yield", token |-> token]

\* The first next(): this.read(); let token = this.read(); then the loop test.
ReadBlockStart(text, index) ==
    LET opened == TokenRead(text, index)
        first == TokenRead(text, opened.index)
    IN  [generator |-> Suspended(first.token), index |-> first.index]

\* A later next(): token = this.read(); then the loop test.
ReadBlockResume(text, index) ==
    LET r == TokenRead(text, index)
    IN  [generator |-> Suspended(r.token), index |-> r.index]

(***************************************************************************)
(* SpecDrain: for (const token of stream.readBlock()) {} over a text.      *)
(* Every next() call of the loop is a step; the loop has ended when the    *)
(* generator is done.  edits is the parity of the number of next() calls,  *)
(* which tells a call from the one before it.                              *)
(***************************************************************************)
InitDrain ==
    /\ buffer \in Texts
    /\ streams = <<TokenStream>>
    /\ ret = TokenConstructed
    /\ object = [pc |-> "start", token |-> NoToken]
    /\ NoTypedArray /\ saved = <<>> /\ edits = 0

Resumes(op, r) ==
    /\ streams' = [streams EXCEPT ![1].index = r.index]
    /\ object' = r.generator
    /\ ret' = TokenCall(op, Undefined, r.generator.token)
    /\ edits' = 1 - edits
    /\ UNCHANGED <<buffer, typedArray, saved>>

DrainStart ==
    /\ object.pc = "start"
    /\ \E r \in {ReadBlockStart(buffer, streams[1].index)} : Resumes("readBlock", r)

DrainResume ==
    /\ object.pc = "yield"
    /\ \E r \in {ReadBlockResume(buffer, streams[1].index)} : Resumes("next", r)

NextDrain == DrainStart \/ DrainResume

SpecDrain == InitDrain /\ [][NextDrain]_vars /\ WF_vars(NextDrain)

\* C12: a loop that drains readBlock() ends on every text: the generator is
\* eventually done.
C12_DrainTerminates == <>(object.pc = "done")

(***************************************************************************)
(* Numbers and their conversions.  A number is NaN, an infinity or a       *)
(* decimal: a sign, an integer part and the digits of its fraction without *)
(* trailing zeros.  parseInt and parseFloat are modelled on decimal        *)
(* literals: a sign, digits, a point and digits; hexadecimal prefixes and  *)
(* exponents are not sampled.                                              *)
(***************************************************************************)
MINUS == 45
PLUS == 43
POINT == 46
ZERO == 48

NaN == [kind |-> "NaN", neg |-> FALSE, int |-> 0, frac |-> <<>>]
Infinity(neg) == [kind |-> "Infinity", neg |-> neg, int |-> 0, frac |-> <<>>]
Decimal(neg, int, frac) == [kind |-> "number", neg |-> neg, int |-> int, frac |-> frac]
Num(n) == Decimal(n < 0, IF n < 0 THEN -n ELSE n, <<>>)

IsDigit(c) == c \in ZERO..(ZERO + 9)

\* The characters of "Infinity" and of "NaN".
InfinityText == <<73, 110, 102, 105, 110, 105, 116, 121>>
NaNText == <<78, 97, 78>>

\* The first position at or after p of s that holds no digit.
RECURSIVE RunEnd(_, _)
RunEnd(s, p) == IF p <= Len(s) /\ IsDigit(s[p]) THEN RunEnd(s, p + 1) ELSE p

\* The value of a run of digits.
RECURSIVE DigitsValue(_)
DigitsValue(digits) ==
    IF Len(digits) = 0 THEN 0
    ELSE DigitsValue(SubSeq(digits, 1, Len(digits) - 1)) * 10
             + (digits[Len(digits)] - ZERO)

\* The digits of a natural number.
RECURSIVE DigitsOf(_)
DigitsOf(n) ==
    IF n < 10 THEN <<ZERO + n>> ELSE DigitsOf(n \div 10) \o <<ZERO + (n % 10)>>

\* digits without its trailing zeros.
RECURSIVE StripZeros(_)
StripZeros(digits) ==
    IF Len(digits) > 0 /\ digits[Len(digits)] = ZERO
    THEN StripZeros(SubSeq(digits, 1, Len(digits) - 1))
    ELSE digits

\* The first position of s that holds no white space.
RECURSIVE TrimStart(_, _)
TrimStart(s, p) ==
    IF p <= Len(s) /\ s[p] \in {SPACE, TAB, LF, CR} THEN TrimStart(s, p + 1) ELSE p

\* String(token): undefined becomes the text "undefined".
TokenText(token) ==
    IF token = NoToken THEN <<117, 110, 100, 101, 102, 105, 110, 101, 100>>
    ELSE token[1]

\* parseInt(token): white space, a sign, then the longest run of digits.
ParseInt(token) ==
    LET s == TokenText(token)
        start == TrimStart(s, 1)
        signed == start <= Len(s) /\ s[start] \in {MINUS, PLUS}
        from == IF signed THEN start + 1 ELSE start
        end == RunEnd(s, from)
    IN  IF end = from THEN NaN
        ELSE Decimal(signed /\ s[start] = MINUS,
                     DigitsValue(SubSeq(s, from, end - 1)), <<>>)

\* parseFloat(token): white space, a sign, then Infinity or digits, a point
\* and digits.
ParseFloat(token) ==
    LET s == TokenText(token)
        start == TrimStart(s, 1)
        signed == start <= Len(s) /\ s[start] \in {MINUS, PLUS}
        neg == signed /\ s[start] = MINUS
        from == IF signed THEN start + 1 ELSE start
        end == RunEnd(s, from)
        pointed == end <= Len(s) /\ s[end] = POINT
        fracEnd == IF pointed THEN RunEnd(s, end + 1) ELSE end
        frac == IF pointed THEN SubSeq(s, end + 1, fracEnd - 1) ELSE <<>>
    IN  IF /\ from + Len(InfinityText) - 1 <= Len(s)
           /\ SubSeq(s, from, from + Len(InfinityText) - 1) = InfinityText
        THEN Infinity(neg)
        ELSE IF end = from /\ Len(frac) = 0 THEN NaN
        ELSE Decimal(neg, DigitsValue(SubSeq(s, from, end - 1)), StripZeros(frac))

\* String(number) of a template literal: -0 prints as 0.
NumberToString(x) ==
    CASE x.kind = "NaN" -> NaNText
      [] x.kind = "Infinity" -> (IF x.neg THEN <<MINUS>> ELSE <<>>) \o InfinityText
      [] OTHER ->
           (IF x.neg /\ (x.int # 0 \/ Len(x.frac) > 0) THEN <<MINUS>> ELSE <<>>)
           \o DigitsOf(x.int)
           \o (IF Len(x.frac) > 0 THEN <<POINT>> \o x.frac ELSE <<>>)

\* readInt() and readFloat(): [data, index].
readInt(text, index) ==
    LET r == TokenRead(text, index)
    IN  [data |-> ParseInt(r.token), index |-> r.index]

readFloat(text, index) ==
    LET r == TokenRead(text, index)
    IN  [data |-> ParseFloat(r.token), index |-> r.index]

\* The loop of readIntArray and readFloatArray from slot i on: [view, index].
RECURSIVE ReadValues(_, _, _, _, _)
ReadValues(text, index, view, i, float) ==
    IF ~(i < Len(view)) THEN [view |-> view, index |-> index]
    ELSE LET r == IF float THEN readFloat(text, index) ELSE readInt(text, index)
         IN  ReadValues(text, r.index, [view EXCEPT ![i + 1] = r.data], i + 1, float)

\* readIntArray(view): read(), the loop, read().
readIntArray(text, index, view) ==
    LET filled == ReadValues(text, TokenRead(text, index).index, view, 0, FALSE)
    IN  [view |-> filled.view, index |-> TokenRead(text, filled.index).index]

\* readFloatArray(view): read(), the loop, read().
readFloatArray(text, index, view) ==
    LET filled == ReadValues(text, TokenRead(text, index).index, view, 0, TRUE)
    IN  [view |-> filled.view, index |-> TokenRead(text, filled.index).index]

(***************************************************************************)
(* SpecValues: readIntArray(view) or readFloatArray(view) at the start of  *)
(* a text that begins with a block of numbers.  object describes the text: *)
(* the numbers of the block and the index just after its closing brace.    *)
(***************************************************************************)
MaxValues == 2

\* The literals of the blocks and the numbers they denote.
IntSamples ==
    { [text |-> <<55>>, value |-> Num(7)],
      [text |-> <<45, 51>>, value |-> Num(-3)],
      [text |-> <<49, 50>>, value |-> Num(12)] }

FloatSamples ==
    { [text |-> <<48, 46, 53>>, value |-> Decimal(FALSE, 0, <<ZERO + 5>>)],
      [text |-> <<45, 49, 46, 53>>, value |-> Decimal(TRUE, 1, <<ZERO + 5>>)],
      [text |-> <<55>>, value |-> Num(7)] }

\* What follows the block: nothing, or a number and a brace.
Tails == {<<>>, <<32, 57, 32, 125>>}

\* t1, t2, ..., tn
RECURSIVE Joined(_)
Joined(texts) ==
    IF Len(texts) = 0 THEN <<>>
    ELSE IF Len(texts) = 1 THEN texts[1]
    ELSE texts[1] \o <<COMMA, SPACE>> \o Joined(Tail(texts))

\* { t1, t2, ..., tn }
BlockText(texts) == <<OPEN, SPACE>> \o Joined(texts) \o <<SPACE, CLOSE>>

InitValues ==
    \E float \in BOOLEAN, count \in 0..MaxValues, length \in 0..MaxValues, tail \in Tails :
        \E samples \in [1..count -> IF float THEN FloatSamples ELSE IntSamples] :
            LET block == BlockText([k \in 1..count |-> samples[k].text])
            IN  /\ buffer = block \o tail
                /\ object = [float |-> float, end |-> Len(block),
                             values |-> [k \in 1..count |-> samples[k].value]]
                /\ typedArray = [k \in 1..length |-> Num(0)]
                /\ streams = <<TokenStream>>
                /\ ret = TokenConstructed
                /\ saved = <<>> /\ edits = 0

\* A call that reads numbers into the view: r is [view, index].
ReadsView(op, r) ==
    /\ streams' = [streams EXCEPT ![1].index = r.index]
    /\ typedArray' = r.view
    /\ ret' = TokenCall(op, Undefined, NoToken)
    /\ UNCHANGED <<buffer, object, saved, edits>>

ReadIntArray ==
    /\ ret.op = "new" /\ ~object.float
    /\ \E r \in {readIntArray(buffer, streams[1].index, typedArray)} :
          ReadsView("readIntArray", r)

ReadFloatArray ==
    /\ ret.op = "new" /\ object.float
    /\ \E r \in {readFloatArray(buffer, streams[1].index, typedArray)} :
          ReadsView("readFloatArray", r)

NextValues == ReadIntArray \/ ReadFloatArray

SpecValues == InitValues /\ [][NextValues]_vars

\* C17: after readIntArray(view) or readFloatArray(view) at a block, the
\* slots of the view hold the block's values in order and the stream is
\* just after the block's closing brace.
C17_ArrayFilled ==
    ret.op \in {"readIntArray", "readFloatArray"} =>
        /\ \A k \in 1..Len(typedArray) :
              k <= Len(object.values) => typedArray[k] = object.values[k]
        /\ streams[1].index = object.end

(***************************************************************************)
(* writeLine, writeColor and readColor.  The view is a sequence of three   *)
(* numbers: view[k + 1] is the JavaScript view[k].                         *)
(***************************************************************************)
\* '\t'.repeat(ident)
Tabs(ident) == [k \in 1..ident |-> TAB]

\* writeLine(line): the new buffer.
writeLine(text, ident, line) == text \o Tabs(ident) \o line \o <<LF>>

\* writeColor(name, view): `${name} { ${view[2]}, ${view[1]}, ${view[0]} },`
writeColor(text, ident, name, view) ==
    writeLine(text, ident,
              name \o <<SPACE, OPEN, SPACE>>
                   \o NumberToString(view[3]) \o <<COMMA, SPACE>>
                   \o NumberToString(view[2]) \o <<COMMA, SPACE>>
                   \o NumberToString(view[1]) \o <<SPACE, CLOSE, COMMA>>)

\* A readColor that stores the components in file order.
readColor_FileOrder(text, index, view) ==
    LET opened == TokenRead(text, index)
        first == readFloat(text, opened.index)
        second == readFloat(text, first.index)
        third == readFloat(text, second.index)
    IN  [view |-> [view EXCEPT ![1] = first.data, ![2] = second.data, ![3] = third.data],
         index |-> TokenRead(text, third.index).index]

\* readColor(view): read(); view[2], view[1], view[0] = readFloat(); read().
readColor(text, index, view) ==
    LET opened == TokenRead(text, index)
        first == readFloat(text, opened.index)
        second == readFloat(text, first.index)
        third == readFloat(text, second.index)
    IN  [view |-> [view EXCEPT ![3] = first.data, ![2] = second.data, ![1] = third.data],
         index |-> TokenRead(text, third.index).index]

(***************************************************************************)
(* SpecColor: writeColor(name, c) on an empty stream, then read() and      *)
(* readColor(v) on what was written.  saved is the colour as written, with *)
(* the literal each component is expected to print as; object holds the    *)
(* name.                                                                   *)
(***************************************************************************)
MaxIdent == 1

\* The names the documentation of writeColor gives: Color and static Color.
ColorNames ==
    { <<67, 111, 108, 111, 114>>,
      <<115, 116, 97, 116, 105, 99, 32, 67, 111, 108, 111, 114>> }

ColorSamples ==
    { [text |-> <<48>>, value |-> Num(0)],
      [text |-> <<49>>, value |-> Num(1)],
      [text |-> <<48, 46, 53>>, value |-> Decimal(FALSE, 0, <<ZERO + 5>>)],
      [text |-> <<45, 48, 46, 50, 53>>, value |-> Decimal(TRUE, 0, <<ZERO + 2, ZERO + 5>>)],
      [text |-> <<48>>, value |-> Decimal(TRUE, 0, <<>>)] }

InitColor ==
    \E ident \in 0..MaxIdent, name \in ColorNames, c \in [1..3 -> ColorSamples] :
        /\ buffer = <<>>
        /\ streams = <<[index |-> 0, ident |-> ident]>>
        /\ ret = [TokenConstructed EXCEPT !.pre = streams[1]]
        /\ object = [name |-> name]
        /\ saved = c
        /\ typedArray = [k \in 1..3 |-> c[k].value]
        /\ edits = 0

\* stream.writeColor(name, c)
WriteColor ==
    /\ ret.op = "new"
    /\ buffer' = writeColor(buffer, streams[1].ident, object.name, typedArray)
    /\ ret' = TokenCall("writeColor", Undefined, NoToken)
    /\ UNCHANGED <<streams, typedArray, object, saved, edits>>

\* stream.read() for the name, with v = new Float32Array(3) at hand.
ReadColorName ==
    /\ ret.op = "writeColor"
    /\ \E r \in {TokenRead(buffer, streams[1].index)} :
          /\ streams' = [streams EXCEPT ![1].index = r.index]
          /\ ret' = TokenCall("read", Undefined, r.token)
    /\ typedArray' = [k \in 1..3 |-> Num(0)]
    /\ UNCHANGED <<buffer, object, saved, edits>>

\* stream.readColor(v)
ReadColor ==
    /\ ret.op = "read"
    /\ \E r \in {readColor(buffer, streams[1].index, typedArray)} :
          ReadsView("readColor", r)

NextColor == WriteColor \/ ReadColorName \/ ReadColor

SpecColor == InitColor /\ [][NextColor]_vars

\* Equal as numbers: a zero equals a zero of the other sign.
SameNumber(x, y) ==
    \/ x = y
    \/ /\ x.kind = "number" /\ y.kind = "number"
       /\ x.int = 0 /\ y.int = 0 /\ Len(x.frac) = 0 /\ Len(y.frac) = 0

\* The line writeColor is expected to write: the components in the reverse
\* of storage order.
ColorLine ==
    Tabs(streams[1].ident) \o object.name \o <<SPACE, OPEN, SPACE>>
        \o saved[3].text \o <<COMMA, SPACE>> \o saved[2].text \o <<COMMA, SPACE>>
        \o saved[1].text \o <<SPACE, CLOSE, COMMA, LF>>

\* What the colour claim says of a state after readColor.
ColorReadBack ==
    /\ \A k \in 1..3 : SameNumber(typedArray[k], saved[k].value)
    /\ buffer = ColorLine
    /\ streams[1].index = Len(buffer) - 2

\* C18: writeColor(name, c), read(), readColor(v) gives v equal to c, the
\* text holds the components in reverse storage order and readColor ends
\* just after the closing brace -- for every name.
C18_ColorRoundTripAnyName == ret.op = "readColor" => ColorReadBack

\* C18, amended: the same for a name that is one token.
C18_ColorRoundTrip ==
    (ret.op = "readColor" /\ \A k \in 1..Len(object.name) : object.name[k] \notin Blank)
        => ColorReadBack

\* C18 witness: a colour of three different components, one of them with a
\* fraction, went through writeColor, read and readColor under a one-token name.
C18_ColorRead ==
    /\ ret.op = "readColor" /\ \A k \in 1..Len(object.name) : object.name[k] \notin Blank
    /\ saved[1].value # saved[2].value /\ saved[2].value # saved[3].value
    /\ saved[1].value # saved[3].value /\ Len(saved[1].value.frac) > 0

(***************************************************************************)
(* Texture.readMdl and Camera.readMdl (src/parsers/mdlx).  A run of either *)
(* is [object, index, threw, message, keys, targetKeys, outside]: the      *)
(* record, the index of the stream, whether an Error was thrown and its    *)
(* message, the tokens the block's generator yielded, those the generator  *)
(* of a Target block yielded, and whether the run reached                  *)
(* AnimatedObject.readAnimation, whose code is not part of the sources and *)
(* where the model leaves the run.                                         *)
(***************************************************************************)
\* The characters of the string literals of the two parsers.
Chars(string) ==
    CASE string = "Bitmap" -> <<66, 105, 116, 109, 97, 112>>
      [] string = "Image" -> <<73, 109, 97, 103, 101>>
      [] string = "ReplaceableId" -> <<82, 101, 112, 108, 97, 99, 101, 97, 98, 108, 101, 73, 100>>
      [] string = "WrapWidth" -> <<87, 114, 97, 112, 87, 105, 100, 116, 104>>
      [] string = "WrapHeight" -> <<87, 114, 97, 112, 72, 101, 105, 103, 104, 116>>
      [] string = "Position" -> <<80, 111, 115, 105, 116, 105, 111, 110>>
      [] string = "Translation" -> <<84, 114, 97, 110, 115, 108, 97, 116, 105, 111, 110>>
      [] string = "Rotation" -> <<82, 111, 116, 97, 116, 105, 111, 110>>
      [] string = "FieldOfView" -> <<70, 105, 101, 108, 100, 79, 102, 86, 105, 101, 119>>
      [] string = "FarClip" -> <<70, 97, 114, 67, 108, 105, 112>>
      [] string = "NearClip" -> <<78, 101, 97, 114, 67, 108, 105, 112>>
      [] string = "Target" -> <<84, 97, 114, 103, 101, 116>>
      [] string = "Texture" -> <<84, 101, 120, 116, 117, 114, 101>>
      [] string = "Camera" -> <<67, 97, 109, 101, 114, 97>>
      [] string = "'s Target" -> <<39, 115, 32, 84, 97, 114, 103, 101, 116>>
      [] string = "Unknown token in " -> <<85, 110, 107, 110, 111, 119, 110, 32, 116, 111, 107, 101, 110, 32, 105, 110, 32>>

Run(o, index, threw, message, keys, targetKeys, outside) ==
    [object |-> o, index |-> index, threw |-> threw, message |-> message,
     keys |-> keys, targetKeys |-> targetKeys, outside |-> outside]

\* flags |= bit, for the bits 1 and 2.
BitOr(flags, bit) == IF (flags \div bit) % 2 = 1 THEN flags ELSE flags + bit

\* new Texture()
NewTexture == [replaceableId |-> Num(0), path |-> Token(<<>>), flags |-> 0]

\* `Unknown token in Texture: "${token}"`
TextureUnknown(token) ==
    Chars("Unknown token in ") \o Chars("Texture") \o <<COLON, SPACE, QUOTE>>
        \o TokenText(token) \o <<QUOTE>>

\* The for-of loop of Texture.readMdl with the generator suspended at g.
RECURSIVE TextureLoop(_, _, _, _)
TextureLoop(text, g, texture, keys) ==
    IF g.generator.pc = "done"
    THEN Run(texture, g.index, FALSE, <<>>, keys, <<>>, FALSE)
    ELSE LET token == g.generator.token
             yielded == Append(keys, token)
         IN  IF token = Token(Chars("Image"))
             THEN Bind(TokenRead(text, g.index), LAMBDA r :
                      TextureLoop(text, ReadBlockResume(text, r.index),
                                  [texture EXCEPT !.path = r.token], yielded))
             ELSE IF token = Token(Chars("ReplaceableId"))
             THEN Bind(readInt(text, g.index), LAMBDA r :
                      TextureLoop(text, ReadBlockResume(text, r.index),
                                  [texture EXCEPT !.replaceableId = r.data], yielded))
             ELSE IF token = Token(Chars("WrapWidth"))
             THEN TextureLoop(text, ReadBlockResume(text, g.index),
                              [texture EXCEPT !.flags = BitOr(@, 1)], yielded)
             ELSE IF token = Token(Chars("WrapHeight"))
             THEN TextureLoop(text, ReadBlockResume(text, g.index),
                              [texture EXCEPT !.flags = BitOr(@, 2)], yielded)
             ELSE Run(texture, g.index, TRUE, TextureUnknown(token), yielded, <<>>, FALSE)

\* texture.readMdl(stream)
TextureReadMdl(text, index, texture) ==
    Bind(ReadBlockStart(text, index), LAMBDA g : TextureLoop(text, g, texture, <<>>))

\* new Camera()
NewCamera ==
    [name |-> Token(<<>>), position |-> [k \in 1..3 |-> Num(0)],
     fieldOfView |-> Num(0), farClippingPlane |-> Num(0),
     nearClippingPlane |-> Num(0), targetPosition |-> [k \in 1..3 |-> Num(0)]]

\* `Unknown token in Camera ${this.name}: "${token}"`
CameraUnknown(name, token) ==
    Chars("Unknown token in ") \o Chars("Camera") \o <<SPACE>> \o TokenText(name)
        \o <<COLON, SPACE, QUOTE>> \o TokenText(token) \o <<QUOTE>>

\* A message that names the camera but not the token.
TargetUnknown_NoToken(name, token) ==
    Chars("Unknown token in ") \o Chars("Camera") \o <<SPACE>> \o TokenText(name)
        \o Chars("'s Target")

\* `Unknown token in Camera ${this.name}'s Target: "${token}"`
TargetUnknown(name, token) ==
    Chars("Unknown token in ") \o Chars("Camera") \o <<SPACE>> \o TokenText(name)
        \o Chars("'s Target") \o <<COLON, SPACE, QUOTE>> \o TokenText(token) \o <<QUOTE>>

\* The inner for-of loop, over the Target block, suspended at g.
RECURSIVE TargetLoop(_, _, _, _)
TargetLoop(text, g, camera, keys) ==
    IF g.generator.pc = "done"
    THEN Run(camera, g.index, FALSE, <<>>, <<>>, keys, FALSE)
    ELSE LET token == g.generator.token
             yielded == Append(keys, token)
         IN  IF token = Token(Chars("Position"))
             THEN Bind(readFloatArray(text, g.index, camera.targetPosition), LAMBDA r :
                      TargetLoop(text, ReadBlockResume(text, r.index),
                                 [camera EXCEPT !.targetPosition = r.view], yielded))
             ELSE IF token = Token(Chars("Translation"))
             THEN Run(camera, g.index, FALSE, <<>>, <<>>, yielded, TRUE)
             ELSE Run(camera, g.index, TRUE, TargetUnknown(camera.name, token),
                      <<>>, yielded, FALSE)

\* The outer for-of loop of Camera.readMdl with the generator suspended at g.
RECURSIVE CameraLoop(_, _, _, _, _)
CameraLoop(text, g, camera, keys, targetKeys) ==
    IF g.generator.pc = "done"
    THEN Run(camera, g.index, FALSE, <<>>, keys, targetKeys, FALSE)
    ELSE LET token == g.generator.token
             yielded == Append(keys, token)
         IN  IF token = Token(Chars("Position"))
             THEN Bind(readFloatArray(text, g.index, camera.position), LAMBDA r :
                      CameraLoop(text, ReadBlockResume(text, r.index),
                                 [camera EXCEPT !.position = r.view], yielded, targetKeys))
             ELSE IF token \in {Token(Chars("Translation")), Token(Chars("Rotation"))}
             THEN Run(camera, g.index, FALSE, <<>>, yielded, targetKeys, TRUE)
             ELSE IF token = Token(Chars("FieldOfView"))
             THEN Bind(readFloat(text, g.index), LAMBDA r :
                      CameraLoop(text, ReadBlockResume(text, r.index),
                                 [camera EXCEPT !.fieldOfView = r.data], yielded, targetKeys))
             ELSE IF token = Token(Chars("FarClip"))
             THEN Bind(readFloat(text, g.index), LAMBDA r :
                      CameraLoop(text, ReadBlockResume(text, r.index),
                                 [camera EXCEPT !.farClippingPlane = r.data], yielded, targetKeys))
             ELSE IF token = Token(Chars("NearClip"))
             THEN Bind(readFloat(text, g.index), LAMBDA r :
                      CameraLoop(text, ReadBlockResume(text, r.index),
                                 [camera EXCEPT !.nearClippingPlane = r.data], yielded, targetKeys))
             ELSE IF token = Token(Chars("Target"))
             THEN Bind(Bind(ReadBlockStart(text, g.index), LAMBDA inner :
                                TargetLoop(text, inner, camera, <<>>)),
                       LAMBDA target :
                          IF target.threw \/ target.outside
                          THEN [target EXCEPT !.keys = yielded,
                                              !.targetKeys = targetKeys \o @]
                          ELSE CameraLoop(text, ReadBlockResume(text, target.index),
                                          target.object, yielded,
                                          targetKeys \o target.targetKeys))
             ELSE Run(camera, g.index, TRUE, CameraUnknown(camera.name, token),
                      yielded, targetKeys, FALSE)

\* camera.readMdl(stream): this.name = stream.read(), then the loop.
CameraReadMdl(text, index, camera) ==
    Bind(TokenRead(text, index), LAMBDA named :
        Bind(ReadBlockStart(text, named.index), LAMBDA g :
            CameraLoop(text, g, [camera EXCEPT !.name = named.token], <<>>, <<>>)))

(***************************************************************************)
(* SpecMdl: Texture.readMdl or Camera.readMdl at the start of a text made  *)
(* of entries, one per line.  saved describes the text: the record kind,   *)
(* the entries, whether the block is closed and the index just after its   *)
(* closing brace.  An entry is ok (a recognised key with its values),      *)
(* bad (it holds the token bad, which the record does not recognise, whose *)
(* last character is at offset in the entry), outside (a key handed to     *)
(* readAnimation) or ends (the quoted string "}" where a key is expected). *)
(***************************************************************************)
MaxEntries == 2

TextureEntries ==
    { [text |-> <<73, 109, 97, 103, 101, 32, 34, 97, 32, 98, 46, 98, 108, 112, 34>>,
       kind |-> "ok", key |-> Token(<<73, 109, 97, 103, 101>>), inner |-> <<>>,
       bad |-> NoToken, offset |-> 0],
      [text |-> <<82, 101, 112, 108, 97, 99, 101, 97, 98, 108, 101, 73, 100, 32, 50>>,
       kind |-> "ok", key |-> Token(<<82, 101, 112, 108, 97, 99, 101, 97, 98, 108, 101, 73, 100>>), inner |-> <<>>,
       bad |-> NoToken, offset |-> 0],
      [text |-> <<87, 114, 97, 112, 87, 105, 100, 116, 104>>,
       kind |-> "ok", key |-> Token(<<87, 114, 97, 112, 87, 105, 100, 116, 104>>), inner |-> <<>>,
       bad |-> NoToken, offset |-> 0],
      [text |-> <<87, 114, 97, 112, 72, 101, 105, 103, 104, 116>>,
       kind |-> "ok", key |-> Token(<<87, 114, 97, 112, 72, 101, 105, 103, 104, 116>>), inner |-> <<>>,
       bad |-> NoToken, offset |-> 0],
      [text |-> <<66, 111, 103, 117, 115, 32, 49>>,
       kind |-> "bad", key |-> Token(<<66, 111, 103, 117, 115>>), inner |-> <<>>,
       bad |-> Token(<<66, 111, 103, 117, 115>>), offset |-> 5],
      [text |-> <<34, 125, 34>>,
       kind |-> "ends", key |-> Token(<<125>>), inner |-> <<>>,
       bad |-> NoToken, offset |-> 0] }

CameraEntries ==
    { [text |-> <<80, 111, 115, 105, 116, 105, 111, 110, 32, 123, 32, 49, 44, 32, 48, 46, 53, 44, 32, 45, 48, 46, 50, 53, 32, 125>>,
       kind |-> "ok", key |-> Token(<<80, 111, 115, 105, 116, 105, 111, 110>>), inner |-> <<>>,
       bad |-> NoToken, offset |-> 0],
      [text |-> <<70, 105, 101, 108, 100, 79, 102, 86, 105, 101, 119, 32, 48, 46, 53>>,
       kind |-> "ok", key |-> Token(<<70, 105, 101, 108, 100, 79, 102, 86, 105, 101, 119>>), inner |-> <<>>,
       bad |-> NoToken, offset |-> 0],
      [text |-> <<70, 97, 114, 67, 108, 105, 112, 32, 55>>,
       kind |-> "ok", key |-> Token(<<70, 97, 114, 67, 108, 105, 112>>), inner |-> <<>>,
       bad |-> NoToken, offset |-> 0],
      [text |-> <<78, 101, 97, 114, 67, 108, 105, 112, 32, 49>>,
       kind |-> "ok", key |-> Token(<<78, 101, 97, 114, 67, 108, 105, 112>>), inner |-> <<>>,
       bad |-> NoToken, offset |-> 0],
      [text |-> <<84, 97, 114, 103, 101, 116, 32, 123, 32, 80, 111, 115, 105, 116, 105, 111, 110, 32, 123, 32, 48, 44, 32, 49, 44, 32, 55, 32, 125, 32, 125>>,
       kind |-> "ok", key |-> Token(<<84, 97, 114, 103, 101, 116>>), inner |-> <<Token(<<80, 111, 115, 105, 116, 105, 111, 110>>)>>,
       bad |-> NoToken, offset |-> 0],
      [text |-> <<84, 97, 114, 103, 101, 116, 32, 123, 32, 73, 109, 97, 103, 101, 32, 49, 32, 125>>,
       kind |-> "bad", key |-> Token(<<84, 97, 114, 103, 101, 116>>), inner |-> <<Token(<<73, 109, 97, 103, 101>>)>>,
       bad |-> Token(<<73, 109, 97, 103, 101>>), offset |-> 14],
      [text |-> <<73, 109, 97, 103, 101, 32, 49>>,
       kind |-> "bad", key |-> Token(<<73, 109, 97, 103, 101>>), inner |-> <<>>,
       bad |-> Token(<<73, 109, 97, 103, 101>>), offset |-> 5],
      [text |-> <<84, 114, 97, 110, 115, 108, 97, 116, 105, 111, 110>>,
       kind |-> "outside", key |-> Token(<<84, 114, 97, 110, 115, 108, 97, 116, 105, 111, 110>>), inner |-> <<>>,
       bad |-> NoToken, offset |-> 0],
      [text |-> <<84, 97, 114, 103, 101, 116, 32, 123, 32, 84, 114, 97, 110, 115, 108, 97, 116, 105, 111, 110>>,
       kind |-> "outside", key |-> Token(<<84, 97, 114, 103, 101, 116>>), inner |-> <<Token(<<84, 114, 97, 110, 115, 108, 97, 116, 105, 111, 110>>)>>,
       bad |-> NoToken, offset |-> 0],
      [text |-> <<34, 125, 34>>,
       kind |-> "ends", key |-> Token(<<125>>), inner |-> <<>>,
       bad |-> NoToken, offset |-> 0] }

\* The name of the camera in the text.
CameraName == <<67, 97, 109>>

\* What follows the block: nothing, or another token.
MdlTails == {<<>>, <<10, 78, 101, 120, 116>>}

EntryLine(e) == <<TAB>> \o e.text \o <<COMMA, LF>>

RECURSIVE EntryLines(_)
EntryLines(entries) ==
    IF Len(entries) = 0 THEN <<>> ELSE EntryLine(entries[1]) \o EntryLines(Tail(entries))

\* The text before the first entry line.
MdlHead(kind) ==
    (IF kind = "Camera" THEN CameraName \o <<SPACE>> ELSE <<>>) \o <<OPEN, LF>>

InitMdl ==
    \E kind \in {"Texture", "Camera"}, count \in 0..MaxEntries, closed \in BOOLEAN,
       tail \in MdlTails :
        \E entries \in [1..count -> IF kind = "Texture" THEN TextureEntries
                                    ELSE CameraEntries] :
            LET block == MdlHead(kind) \o EntryLines(entries)
                               \o (IF closed THEN <<CLOSE>> ELSE <<>>)
            IN  /\ buffer = block \o tail
                /\ saved = [kind |-> kind, entries |-> entries, closed |-> closed,
                            end |-> Len(block)]
                /\ object = IF kind = "Texture" THEN NewTexture ELSE NewCamera
                /\ streams = <<TokenStream>>
                /\ ret = [op |-> "new", run |-> Run(object, 0, FALSE, <<>>, <<>>, <<>>, FALSE)]
                /\ NoTypedArray /\ edits = 0

\* A readMdl call: run is the Run it makes.
ReadsMdl(op, run) ==
    /\ object' = run.object
    /\ streams' = [streams EXCEPT ![1].index = run.index]
    /\ ret' = [op |-> op, run |-> run]
    /\ UNCHANGED <<buffer, typedArray, saved, edits>>

TextureReadsMdl ==
    /\ ret.op = "new" /\ saved.kind = "Texture"
    /\ \E run \in {TextureReadMdl(buffer, streams[1].index, object)} :
          ReadsMdl("readMdl", run)

CameraReadsMdl ==
    /\ ret.op = "new" /\ saved.kind = "Camera"
    /\ \E run \in {CameraReadMdl(buffer, streams[1].index, object)} :
          ReadsMdl("readMdl", run)

NextMdl == TextureReadsMdl \/ CameraReadsMdl

SpecMdl == InitMdl /\ [][NextMdl]_vars

\* The tokens Texture.readMdl, Camera.readMdl and the Target block recognise.
Recognised(kind) ==
    CASE kind = "Texture" ->
            {Token(Chars(w)) : w \in {"Image", "ReplaceableId", "WrapWidth", "WrapHeight"}}
      [] kind = "Camera" ->
            {Token(Chars(w)) : w \in {"Position", "Translation", "Rotation",
                                      "FieldOfView", "FarClip", "NearClip", "Target"}}
      [] kind = "Target" -> {Token(Chars(w)) : w \in {"Position", "Translation"}}

\* The number of characters of the text before entry k.
EntryStart(k) ==
    Len(MdlHead(saved.kind)) + Len(EntryLines(SubSeq(saved.entries, 1, k - 1))) + 1

\* The first entry that is not a recognised key with its values, or 0.
FirstStop ==
    LET stops == {k \in 1..Len(saved.entries) : saved.entries[k].kind # "ok"}
    IN  IF stops = {} THEN 0 ELSE CHOOSE k \in stops : \A j \in stops : k <= j

RECURSIVE InnerKeys(_)
InnerKeys(entries) ==
    IF Len(entries) = 0 THEN <<>> ELSE entries[1].inner \o InnerKeys(Tail(entries))

\* sub occurs in text.
Contains(text, sub) ==
    \E i \in 0..(Len(text) - Len(sub)) : SubSeq(text, i + 1, i + Len(sub)) = sub

\* C19: when readMdl went through a closed block, consuming the values of
\* each key, without throwing, the block's generator yielded exactly the
\* key tokens of the block in order, that of each Target block the keys of
\* that block, and the stream is just after the block's closing brace.
C19_BlockKeys ==
    (ret.op = "readMdl" /\ saved.closed /\ ~ret.run.threw /\ ~ret.run.outside) =>
        /\ ret.run.keys = [k \in 1..Len(saved.entries) |-> saved.entries[k].key]
        /\ ret.run.targetKeys = InnerKeys(saved.entries)
        /\ streams[1].index = saved.end

\* The tokens a run's generators yielded that their block does not recognise.
Unrecognised(run) ==
    {k \in 1..Len(run.keys) : run.keys[k] \notin Recognised(saved.kind)}

UnrecognisedInTarget(run) ==
    {k \in 1..Len(run.targetKeys) : run.targetKeys[k] \notin Recognised("Target")}

Writer(text, ident) == [text |-> text, ident |-> ident]

\* w.writeLine(line)
WriteLine(w, line) == Writer(writeLine(w.text, w.ident, line), w.ident)

\* headers.join(' ')
RECURSIVE JoinSpace(_)
JoinSpace(headers) ==
    IF Len(headers) = 0 THEN <<>>
    ELSE IF Len(headers) = 1 THEN headers[1]
    ELSE headers[1] \o <<SPACE>> \o JoinSpace(Tail(headers))

\* writeFlag(flag): `${flag},`
writeFlag(w, flag) == WriteLine(w, flag \o <<COMMA>>)

\* writeAttrib(name, value): `${name} ${value},` with value already a string.
writeAttrib(w, name, value) == WriteLine(w, name \o <<SPACE>> \o value \o <<COMMA>>)

\* A string attribute written without its quotes.
writeStringAttrib_Bare(w, name, value) ==
    WriteLine(w, name \o <<SPACE>> \o value \o <<COMMA>>)

\* writeStringAttrib(name, value): `${name} "${value}",`
writeStringAttrib(w, name, value) ==
    WriteLine(w, name \o <<SPACE, QUOTE>> \o value \o <<QUOTE, COMMA>>)

\* startBlock(...headers)
startBlock(w, headers) ==
    LET written == IF Len(headers) > 0
                   THEN WriteLine(w, JoinSpace(headers) \o <<SPACE, OPEN>>)
                   ELSE WriteLine(w, <<OPEN>>)
    IN  Writer(written.text, written.ident + 1)

\* startObjectBlock(header, name)
startObjectBlock(w, header, name) ==
    LET written == WriteLine(w, header \o <<SPACE, QUOTE>> \o name \o <<QUOTE, SPACE, OPEN>>)
    IN  Writer(written.text, written.ident + 1)

\* An endBlock that writes the brace before it steps back.
endBlock_WriteFirst(w) ==
    LET written == WriteLine(w, <<CLOSE>>)
    IN  Writer(written.text, written.ident - 1)

\* endBlock(): this.ident -= 1; this.writeLine('}')
endBlock(w) == WriteLine(Writer(w.text, w.ident - 1), <<CLOSE>>)

\* texture.writeMdl(stream)
TextureWriteMdl(w, texture) ==
    LET opened == startBlock(w, <<Chars("Bitmap")>>)
        image == writeStringAttrib(opened, Chars("Image"), TokenText(texture.path))
        id == IF texture.replaceableId # Num(0)
              THEN writeAttrib(image, Chars("ReplaceableId"),
                               NumberToString(texture.replaceableId))
              ELSE image
        width == IF texture.flags % 2 = 1 THEN writeFlag(id, Chars("WrapWidth")) ELSE id
        height == IF (texture.flags \div 2) % 2 = 1
                  THEN writeFlag(width, Chars("WrapHeight")) ELSE width
    IN  endBlock(height)

(***************************************************************************)
(* SpecTexture: writeMdl of a texture on an empty stream, then read() for  *)
(* the header and readMdl on a new Texture.  saved is the texture written. *)
(***************************************************************************)
\* Paths without a double quote: empty, with a space, with separators,
\* braces and a comment mark.
PathSamples == {<<>>, <<97, 32, 98, 46, 98, 108, 112>>, <<97, 47, 47, 98, 123, 44, 125, 58, 99>>}

\* replaceableId is an unsigned integer (readMdx reads it with readUint32).
ReplaceableIds == {0, 1, 12}

InitTexture ==
    \E ident \in 0..MaxIdent, path \in PathSamples, id \in ReplaceableIds, flags \in 0..3 :
        /\ buffer = <<>>
        /\ streams = <<[index |-> 0, ident |-> ident]>>
        /\ object = [replaceableId |-> Num(id), path |-> Token(path), flags |-> flags]
        /\ saved = <<>>
        /\ ret = [op |-> "new", run |-> Run(object, 0, FALSE, <<>>, <<>>, <<>>, FALSE)]
        /\ NoTypedArray /\ edits = 0

\* texture.writeMdl(stream); the reader then starts from new Texture().
TextureWritesMdl ==
    /\ ret.op = "new"
    /\ \E w \in {TextureWriteMdl(Writer(buffer, streams[1].ident), object)} :
          /\ buffer' = w.text
          /\ streams' = [streams EXCEPT ![1].ident = w.ident]
    /\ saved' = object
    /\ object' = NewTexture
    /\ ret' = [op |-> "writeMdl", run |-> ret.run]
    /\ UNCHANGED <<typedArray, edits>>

\* stream.read(): the Bitmap header.
ReadsHeader ==
    /\ ret.op = "writeMdl"
    /\ \E r \in {TokenRead(buffer, streams[1].index)} :
          /\ streams' = [streams EXCEPT ![1].index = r.index]
          /\ ret' = [op |-> "read",
                     run |-> Run(object, r.index, FALSE, <<>>, <<r.token>>, <<>>, FALSE)]
    /\ UNCHANGED <<buffer, typedArray, object, saved, edits>>

\* new Texture().readMdl(stream)
TextureReadsBack ==
    /\ ret.op = "read"
    /\ \E run \in {TextureReadMdl(buffer, streams[1].index, object)} :
          ReadsMdl("readMdl", run)

NextTexture == TextureWritesMdl \/ ReadsHeader \/ TextureReadsBack

SpecTexture == InitTexture /\ [][NextTexture]_vars

\* C21: a texture written by writeMdl and read back by read() and readMdl on
\* a new Texture has the same path, replaceableId and flags, readMdl does
\* not throw, and the stream is just after the block's closing brace.
C21_TextureRoundTrip ==
    ret.op = "readMdl" =>
        /\ ~ret.run.threw
        /\ object = saved
        /\ streams[1].index = Len(buffer) - 1
        /\ buffer[streams[1].index] = CLOSE

\* C21 witness: a texture with both flags, a replaceableId and a path
\* holding a space was written and read back.
C21_TextureRead ==
    /\ ret.op = "readMdl" /\ saved.flags = 3 /\ saved.replaceableId # Num(0)
    /\ \E k \in 1..Len(saved.path[1]) : saved.path[1][k] = SPACE

(***************************************************************************)
(* SpecWrite: startBlock, startObjectBlock, endBlock and writeLine calls   *)
(* on a new TokenStream, never more endBlock calls than blocks started.    *)
(* saved is the stack of the open blocks: for each, the number of tabs its *)
(* header line starts with.  ret tells the last call, where its line       *)
(* starts in the buffer, how many blocks were open before it and the top   *)
(* of the stack before it.                                                 *)
(***************************************************************************)
MaxCalls == 4

\* The lines and headers the caller passes: one line each, no leading tab.
LineSamples == {<<>>, <<97>>, <<120, 32, 121, 44>>}
HeaderSamples == {<<>>, <<<<65>>>>, <<<<65>>, <<66>>>>}

\* The number of tabs line starts with.
RECURSIVE LeadingTabs(_)
LeadingTabs(line) ==
    IF Len(line) > 0 /\ line[1] = TAB THEN 1 + LeadingTabs(Tail(line)) ELSE 0

InitWrite ==
    /\ buffer = <<>>
    /\ streams = <<TokenStream>>
    /\ saved = <<>>
    /\ ret = [op |-> "new", from |-> 0, opened |-> 0, header |-> 0]
    /\ NoTypedArray /\ object = <<>> /\ edits = 0

\* A call that leaves the writer w and the stack of open blocks stack.
WritesBlock(op, w, stack) ==
    /\ edits < MaxCalls
    /\ buffer' = w.text
    /\ streams' = [streams EXCEPT ![1].ident = w.ident]
    /\ saved' = stack
    /\ ret' = [op |-> op, from |-> Len(buffer), opened |-> Len(saved),
               header |-> IF Len(saved) > 0 THEN saved[Len(saved)] ELSE 0]
    /\ edits' = edits + 1
    /\ UNCHANGED <<typedArray, object>>

StartBlock ==
    \E headers \in HeaderSamples :
        \E w \in {startBlock(Writer(buffer, streams[1].ident), headers)} :
            WritesBlock("startBlock", w,
                        Append(saved, LeadingTabs(SubSeq(w.text, Len(buffer) + 1, Len(w.text)))))

StartObjectBlock ==
    \E w \in {startObjectBlock(Writer(buffer, streams[1].ident), Chars("Camera"), CameraName)} :
        WritesBlock("startObjectBlock", w,
                    Append(saved, LeadingTabs(SubSeq(w.text, Len(buffer) + 1, Len(w.text)))))

EndBlock ==
    /\ Len(saved) > 0
    /\ \E w \in {endBlock(Writer(buffer, streams[1].ident))} :
          WritesBlock("endBlock", w, SubSeq(saved, 1, Len(saved) - 1))

WritesLine ==
    \E line \in LineSamples :
        \E w \in {WriteLine(Writer(buffer, streams[1].ident), line)} :
            WritesBlock("writeLine", w, saved)

NextWrite == StartBlock \/ StartObjectBlock \/ EndBlock \/ WritesLine

SpecWrite == InitWrite /\ [][NextWrite]_vars

\* The line the last call wrote.
LastLine == SubSeq(buffer, ret.from + 1, Len(buffer))

\* C22: the indentation counter is the number of open blocks; the line each
\* call writes is one line that starts with as many tabs as blocks are open
\* around it and ends with a newline; a closing brace line has the
\* indentation of the header line of the block it closes.
C22_Indentation ==
    /\ streams[1].ident = Len(saved)
    /\ ret.op # "new" =>
          /\ Len(LastLine) > 0 /\ LastLine[Len(LastLine)] = LF
          /\ \A k \in 1..(Len(LastLine) - 1) : LastLine[k] # LF
          /\ LeadingTabs(LastLine) =
                IF ret.op = "endBlock" THEN ret.opened - 1 ELSE ret.opened
    /\ ret.op = "endBlock" =>
          /\ LastLine = Tabs(ret.header) \o <<CLOSE, LF>>
          /\ Len(saved) = ret.opened - 1

\* C22 witness: a block opened inside another one was closed, and then the
\* outer one, which brought the counter back to 0.
C22_NestedClosed ==
    /\ ret.op = "endBlock" /\ ret.header = 0 /\ streams[1].ident = 0
    /\ \E k \in 1..(ret.from - 2) :
          buffer[k] = TAB /\ buffer[k + 1] = CLOSE /\ buffer[k + 2] = LF

(***************************************************************************)
(* SpecDefaults: a War3MapW3i or a Trigger is constructed, stored into     *)
(* (the version and fields of one version only), saved, and loaded from    *)
(* what was saved into a new object.                                       *)
(***************************************************************************)
IsW3i == "tileset" \in DOMAIN object
IsTrigger == "ecas" \in DOMAIN object

GatedEdits ==
    IF IsW3i
    THEN ({"version"} \X {24, 25})
         \cup ({"soundEnvironment", "loadingScreenModel"} \X {<<65>>})
         \cup ({"useTerrainFog"} \X {1})
         \cup ({"tileset"} \X {<<76>>})
    ELSE {"isComment", "isEnabled"} \X {1}

InitDefaults == InitW3i \/ InitTrigger

\* object.field = value
SetGated ==
    /\ Returned /\ edits < MaxEdits
    /\ \E e \in GatedEdits : object' = [object EXCEPT ![e[1]] = e[2]]
    /\ edits' = edits + 1
    /\ ret' = RecordCall("set", Undefined, Undefined, TRUE, FALSE)
    /\ UNCHANGED <<buffer, streams, typedArray, saved>>

\* object.randomItemTables.push(table) or trigger.ecas.push(eca)
PushGated ==
    /\ Returned /\ edits < MaxEdits
    /\ \E l \in IF IsW3i THEN {<<"randomItemTables", "RandomItemTable">>}
                ELSE {<<"ecas", "ECA">>} :
       \E e \in ElementSamples(l[2]) :
          /\ Len(object[l[1]]) < MaxCount
          /\ object' = [object EXCEPT ![l[1]] = Append(@, e)]
    /\ edits' = edits + 1
    /\ ret' = RecordCall("push", Undefined, Undefined, TRUE, FALSE)
    /\ UNCHANGED <<buffer, streams, typedArray, saved>>

NextDefaults ==
    \/ SetGated
    \/ PushGated
    \/ IsW3i /\ SaveW3i
    \/ IsW3i /\ NewW3iFromBuffer
    \/ IsTrigger /\ SaveTrigger
    \/ IsTrigger /\ LoadTrigger

SpecDefaults == InitDefaults /\ [][NextDefaults]_vars

\* C23: a new War3MapW3i loaded from a buffer of version <= 24 and a new
\* Trigger loaded at a version other than 7: the load returns and every
\* field of the other version has its constructor value.
C23_OtherVersionDefaults ==
    /\ (ret.op = "new War3MapW3i(buffer)" /\ object.version <= 24) =>
          /\ Returned
          /\ \A f \in W3iGated : object[f] = NewW3i[f]
    /\ (ret.op = "load" /\ IsTrigger /\ ret.arg # 7) =>
          /\ Returned
          /\ object.isComment = NewTrigger.isComment

\* C23 witness: the object saved at version 24 held a soundEnvironment, and
\* the object loaded from its buffer was read to the end.
C23_GatedFieldLeftOut ==
    /\ ret.op = "new War3MapW3i(buffer)" /\ object.version = 24
    /\ saved.soundEnvironment # <<>>
    /\ ret.data = Len(buffer)

(***************************************************************************)
(* TGATexture (src/viewer/modelinstance.js).  The array buffer is a        *)
(* sequence of bytes, byte k of JavaScript at b[k + 1].  A DataView read   *)
(* outside the buffer, and a Uint8Array that does not fit in it, throw a   *)
(* RangeError.  The outcome is [buffer, onerror, threw, id, ready]: the    *)
(* bytes after the call, the messages passed to onerror in order, whether  *)
(* the call threw, whether a texture was created and whether ready was set.*)
(***************************************************************************)
TGAOutcome(b, onerror, threw, id, ready) ==
    [buffer |-> b, onerror |-> onerror, threw |-> threw, id |-> id, ready |-> ready]

\* dataView.getUint8(k) is defined.
HasUint8(b, k) == k + 1 <= Len(b)

getUint8(b, k) == b[k + 1]

\* dataView.getUint16(k, true)
getUint16(b, k) == b[k + 1] + 256 * b[k + 2]

\* BGRA -> RGBA: for each of the pixels, from byte 18 on, bytes 0 and 2 of the
\* pixel change places.
SwapPixels(b, pixels) ==
    [k \in 1..Len(b) |->
        IF k > 18 /\ k <= 18 + 4 * pixels /\ (k - 19) % 4 = 0 THEN b[k + 2]
        ELSE IF k > 18 /\ k <= 18 + 4 * pixels /\ (k - 19) % 4 = 2 THEN b[k - 2]
        ELSE b[k]]

\* new TGATexture(arrayBuffer, options, onerror)
TGATexture(b) ==
    IF ~HasUint8(b, 2) THEN TGAOutcome(b, <<>>, TRUE, FALSE, FALSE)
    ELSE IF getUint8(b, 2) # 2 THEN TGAOutcome(b, <<"ImageType">>, FALSE, FALSE, FALSE)
    ELSE IF ~HasUint8(b, 17) THEN TGAOutcome(b, <<>>, TRUE, FALSE, FALSE)
    ELSE IF getUint8(b, 16) # 32 THEN TGAOutcome(b, <<"PixelDepth">>, FALSE, FALSE, FALSE)
    ELSE LET pixels == getUint16(b, 12) * getUint16(b, 14)
         IN  IF 18 + pixels * 4 > Len(b) THEN TGAOutcome(b, <<>>, TRUE, FALSE, FALSE)
             ELSE TGAOutcome(SwapPixels(b, pixels), <<>>, FALSE, TRUE, TRUE)

(***************************************************************************)
(* SpecTGA: one TGATexture call on a buffer.  saved is the buffer as it    *)
(* was given.                                                              *)
(***************************************************************************)
MaxPixels == 2

\* The lengths of the buffers: cut in the header, the header alone, the
\* header and some pixels.
TGALengths == {3, 17} \cup {18 + 4 * n : n \in 0..MaxPixels}

InitTGA ==
    \E length \in TGALengths, imageType \in {0, 2, 10}, pixelDepth \in {24, 32},
       width \in 0..MaxPixels, height \in 0..1 :
        /\ buffer = [k \in 1..length |->
                        CASE k = 3 -> imageType
                          [] k = 13 -> width
                          [] k = 15 -> height
                          [] k = 17 -> pixelDepth
                          [] k > 18 -> k
                          [] OTHER -> 0]
        /\ saved = buffer
        /\ ret = [op |-> "new", outcome |-> TGAOutcome(buffer, <<>>, FALSE, FALSE, FALSE)]
        /\ streams = <<>> /\ NoTypedArray /\ object = <<>> /\ edits = 0

NewTGATexture ==
    /\ ret.op = "new"
    /\ \E outcome \in {TGATexture(buffer)} :
          /\ buffer' = outcome.buffer
          /\ ret' = [op |-> "TGATexture", outcome |-> outcome]
    /\ UNCHANGED <<streams, typedArray, object, saved, edits>>

NextTGA == NewTGATexture

SpecTGA == InitTGA /\ [][NextTGA]_vars

\* What TGATexture is to do on an unsupported buffer: one onerror call with
\* message, no exception, the bytes as they were, no texture, ready not set.
Signalled(message) ==
    /\ ret.outcome.onerror = <<message>>
    /\ ~ret.outcome.threw
    /\ buffer = saved
    /\ ~ret.outcome.id /\ ~ret.outcome.ready

\* C24: a buffer whose image type (byte 2) is not 2 is signalled with
\* ImageType, one whose image type is 2 and whose pixel depth (byte 16) is
\* not 32 with PixelDepth; the bytes change and ready is set only for image
\* type 2 with pixel depth 32, and then bytes 0 and 2 of each pixel have
\* changed places.
C24_UnsupportedSignalled ==
    ret.op = "TGATexture" =>
        /\ (HasUint8(saved, 2) /\ getUint8(saved, 2) # 2) => Signalled("ImageType")
        /\ (HasUint8(saved, 16) /\ getUint8(saved, 2) = 2 /\ getUint8(saved, 16) # 32)
              => Signalled("PixelDepth")
        /\ (ret.outcome.ready \/ ret.outcome.id \/ buffer # saved) =>
              /\ getUint8(saved, 2) = 2 /\ getUint8(saved, 16) = 32
              /\ ret.outcome.ready /\ ret.outcome.onerror = <<>>
              /\ \A k \in 1..Len(buffer) :
                    buffer[k] =
                        IF k > 18 /\ k <= 18 + 4 * getUint16(saved, 12) * getUint16(saved, 14)
                        THEN saved[CASE (k - 19) % 4 = 0 -> k + 2
                                     [] (k - 19) % 4 = 2 -> k - 2
                                     [] OTHER -> k]
                        ELSE saved[k]

(***************************************************************************)
(* ModelInstance (src/viewer/modelinstance.js) and Model                   *)
(* (src/viewer/model.js).  An instance is a record of the fields the       *)
(* handlers below read and write; events is the sequence of the types of   *)
(* the events it has dispatched.  The model view is not part of the        *)
(* sources: setVisibility places the instance in a bucket or takes it out, *)
(* and asked changes at every request to make the instance visible.        *)
(***************************************************************************)
ModelInstance ==
    [loaded |-> FALSE, error |-> FALSE, shouldRender |-> TRUE, culled |-> FALSE,
     scene |-> FALSE, bucket |-> FALSE, asked |-> 0, events |-> <<>>]

\* this.modelView.setVisibility(this, shown)
setVisibility(instance, shown) ==
    [instance EXCEPT !.bucket = shown,
                     !.asked = IF shown THEN 1 - instance.asked ELSE instance.asked]

\* this.dispatchEvent({ type })
dispatchEvent(instance, type) ==
    [instance EXCEPT !.events = Append(instance.events, type)]

hide(instance) ==
    IF instance.shouldRender
    THEN LET hidden == [instance EXCEPT !.shouldRender = FALSE]
         IN  IF hidden.bucket THEN setVisibility(hidden, FALSE) ELSE hidden
    ELSE instance

show(instance) ==
    IF ~instance.shouldRender
    THEN LET shown == [instance EXCEPT !.shouldRender = TRUE]
         IN  IF shown.loaded /\ shown.scene /\ ~shown.culled
             THEN setVisibility(shown, TRUE) ELSE shown
    ELSE instance

cull(instance) ==
    LET culled == [instance EXCEPT !.culled = TRUE]
    IN  IF culled.bucket THEN setVisibility(culled, FALSE) ELSE culled

uncull(instance) ==
    LET unculled == [instance EXCEPT !.culled = FALSE]
    IN  IF unculled.shouldRender /\ unculled.scene /\ ~unculled.bucket
        THEN setVisibility(unculled, TRUE) ELSE unculled

\* instance.modelReady(), modelLoaded being this.model.loaded
modelReady(instance, modelLoaded) ==
    IF modelLoaded
    THEN LET loaded == [instance EXCEPT !.loaded = TRUE]
             visible == IF loaded.shouldRender /\ loaded.scene
                        THEN setVisibility(loaded, TRUE) ELSE loaded
         IN  dispatchEvent(dispatchEvent(visible, "load"), "loadend")
    ELSE dispatchEvent(dispatchEvent([instance EXCEPT !.error = TRUE], "error"), "loadend")

\* new Model(...): no instances, no views; views are numbered as they are
\* created, created being the number of views created so far.
Model == [loaded |-> FALSE, error |-> FALSE, instances |-> <<>>, views |-> <<>>, created |-> 0]

\* model.addView()
addView(model) ==
    [model EXCEPT !.views = Append(model.views, model.created + 1),
                  !.created = model.created + 1]

\* addInstance without the test of loaded and error.
addInstance_NeverReady(model) ==
    LET viewed == IF Len(model.views) = 0 THEN addView(model) ELSE model
    IN  [viewed EXCEPT !.instances = Append(model.instances, ModelInstance)]

\* model.addInstance()
addInstance(model) ==
    LET viewed == IF Len(model.views) = 0 THEN addView(model) ELSE model
        instance == IF model.loaded \/ model.error
                    THEN modelReady(ModelInstance, model.loaded) ELSE ModelInstance
    IN  [viewed EXCEPT !.instances = Append(model.instances, instance)]

\* What the resource does when its load ends, which is not part of the
\* sources: the model is loaded, or it is in error.
ResourceResolve(model, ok) == [model EXCEPT !.loaded = ok, !.error = ~ok]

\* model.resolve(): super.resolve(), then modelReady on every instance.
resolve(model, ok) ==
    LET resolved == ResourceResolve(model, ok)
    IN  [resolved EXCEPT !.instances =
            [k \in 1..Len(model.instances) |-> modelReady(model.instances[k], resolved.loaded)]]

(***************************************************************************)
(* SpecLoad: instances are added to a model, attached to a scene, hidden   *)
(* and shown while the model's load ends, well or in error.                *)
(***************************************************************************)
MaxInstances == 2

InitLoad ==
    /\ object = Model
    /\ ret = [op |-> "new"]
    /\ buffer = <<>> /\ streams = <<>> /\ NoTypedArray /\ saved = <<>> /\ edits = 0

ModelStep(op, model) ==
    /\ object' = model
    /\ ret' = [op |-> op]
    /\ UNCHANGED <<buffer, streams, typedArray, saved, edits>>

InstanceStep(op, k, instance) ==
    ModelStep(op, [object EXCEPT !.instances[k] = instance])

AddInstance ==
    /\ Len(object.instances) < MaxInstances
    /\ ModelStep("addInstance", addInstance(object))

\* The load of the model ends, once.
Resolve ==
    /\ ~object.loaded /\ ~object.error
    /\ \E ok \in BOOLEAN : ModelStep("resolve", resolve(object, ok))

\* scene.addInstance(instance) on an instance that is in no scene and is not
\* loaded; the scene is not part of the sources.
SceneAddInstance ==
    \E k \in 1..Len(object.instances) :
        /\ ~object.instances[k].scene /\ ~object.instances[k].loaded
        /\ InstanceStep("scene", k, [object.instances[k] EXCEPT !.scene = TRUE])

Hide == \E k \in 1..Len(object.instances) : InstanceStep("hide", k, hide(object.instances[k]))

Show == \E k \in 1..Len(object.instances) : InstanceStep("show", k, show(object.instances[k]))

NextLoad == AddInstance \/ Resolve \/ SceneAddInstance \/ Hide \/ Show

SpecLoad == InitLoad /\ [][NextLoad]_vars

Finished == object.loaded \/ object.error

Keyframe(frame, value, inTan, outTan) ==
    [frame |-> frame, value |-> value, inTan |-> inTan, outTan |-> outTan]

\* The keyframes of the track that the constructor pushes: the first one of a
\* global sequence when it lies after end, then those with start <= frame <= end.
SelectKeyframes(start, end, keyframes, isGlobalSequence) ==
    (IF isGlobalSequence /\ keyframes[1].frame > end THEN <<keyframes[1]>> ELSE <<>>)
        \o SelectSeq(keyframes, LAMBDA keyframe : keyframe.frame >= start /\ keyframe.frame <= end)

\* If there is no opening keyframe, one with the default value goes first.
OpeningKeyframe(selected, start, defval) ==
    IF selected[1].frame # start
    THEN <<Keyframe(start, defval, defval, defval)>> \o selected
    ELSE selected

\* A sequence that is never given a closing keyframe.
ClosingKeyframe_Never(opened, end) == opened

\* If there is no closing keyframe, one made from the first keyframe goes last.
ClosingKeyframe(opened, end) ==
    IF opened[Len(opened)].frame # end
    THEN Append(opened, Keyframe(end, opened[1].value, opened[1].outTan, opened[1].inTan))
    ELSE opened

\* new MdxSdSequence(sd, start, end, keyframes, isGlobalSequence), defval
\* being sd.defval
MdxSdSequence(defval, start, end, keyframes, isGlobalSequence) ==
    LET selected == SelectKeyframes(start, end, keyframes, isGlobalSequence)
        made(kept, constant, value) ==
            [start |-> start, end |-> end, keyframes |-> kept,
             constant |-> constant, value |-> value]
    IN  CASE Len(selected) = 0 -> made(selected, TRUE, defval)
          [] Len(selected) = 1 -> made(selected, TRUE, selected[1].value)
          [] OTHER ->
                IF \A i \in 2..Len(selected) : selected[i].value = selected[1].value
                THEN made(selected, TRUE, selected[1].value)
                ELSE made(ClosingKeyframe(OpeningKeyframe(selected, start, defval), end),
                          FALSE, Undefined)

\* The first index i >= from (from 0) whose keyframe lies after frame;
\* undefined when the loop ends without one.
RECURSIVE FirstAfter(_, _, _)
FirstAfter(keyframes, frame, i) ==
    IF i >= Len(keyframes) THEN Undefined
    ELSE IF keyframes[i + 1].frame > frame THEN i
    ELSE FirstAfter(keyframes, frame, i + 1)

\* sequence.getKeyframe(frame)
getKeyframe(sequence, frame) ==
    IF sequence.constant THEN 0
    ELSE IF frame <= sequence.start THEN 0
    ELSE IF frame >= sequence.end THEN Len(sequence.keyframes) - 1
    ELSE FirstAfter(sequence.keyframes, frame, 1)

(***************************************************************************)
(* SpecSequence: a sequence is made from a track sorted by frame and a     *)
(* range start <= end, and is asked for keyframes.  buffer is the track,   *)
(* saved the other arguments of the constructor.                           *)
(***************************************************************************)
MaxFrame == 3
MaxKeys == 2

IsSortedByFrame(keyframes) ==
    \A i \in 1..(Len(keyframes) - 1) : keyframes[i].frame <= keyframes[i + 1].frame

Tracks ==
    { keyframes \in UNION {[1..n -> {Keyframe(frame, value, value + 2, value + 4) :
                                        frame \in 0..MaxFrame, value \in 0..1}] : n \in 1..MaxKeys} :
        IsSortedByFrame(keyframes) }

InitSequence ==
    /\ buffer \in Tracks
    /\ \E start \in 0..MaxFrame, end \in 0..MaxFrame, isGlobalSequence \in BOOLEAN :
          /\ start <= end
          \* the default value 7 is none of the values of the keyframes
          /\ saved = [defval |-> 7, start |-> start, end |-> end,
                      isGlobalSequence |-> isGlobalSequence]
    /\ object = <<>>
    /\ ret = [op |-> "none", frame |-> 0, data |-> Undefined]
    /\ streams = <<>> /\ NoTypedArray /\ edits = 0

NewMdxSdSequence ==
    /\ ret.op = "none"
    /\ object' = MdxSdSequence(saved.defval, saved.start, saved.end, buffer, saved.isGlobalSequence)
    /\ ret' = [op |-> "new", frame |-> 0, data |-> Undefined]
    /\ UNCHANGED <<buffer, streams, typedArray, saved, edits>>

GetKeyframe ==
    /\ ret.op # "none"
    /\ \E frame \in -1..(MaxFrame + 1) :
          ret' = [op |-> "getKeyframe", frame |-> frame, data |-> getKeyframe(object, frame)]
    /\ UNCHANGED <<buffer, streams, typedArray, object, saved, edits>>

NextSequence == NewMdxSdSequence \/ GetKeyframe

SpecSequence == InitSequence /\ [][NextSequence]_vars

\* The keyframes of the track in the range of the sequence.
Selected == SelectKeyframes(saved.start, saved.end, buffer, saved.isGlobalSequence)

Made == ret.op # "none"

\* C26: in a sequence that is not constant, when no selected keyframe lies on
\* start the first keyframe is at start with the default value, and when none
\* lies on end the last keyframe is at end with the default value.
C26_DefaultAtBothEnds ==
    (Made /\ ~object.constant) =>
        /\ (\A i \in 1..Len(Selected) : Selected[i].frame # saved.start) =>
              /\ object.keyframes[1].frame = saved.start
              /\ object.keyframes[1].value = saved.defval
        /\ (\A i \in 1..Len(Selected) : Selected[i].frame # saved.end)
              => /\ object.keyframes[Len(object.keyframes)].frame = saved.end
                 /\ object.keyframes[Len(object.keyframes)].value = saved.defval

\* Sorted by frame, at least two, the first at start and the last at end.
Spanning(sequence) ==
    /\ Len(sequence.keyframes) >= 2
    /\ IsSortedByFrame(sequence.keyframes)
    /\ sequence.keyframes[1].frame = sequence.start
    /\ sequence.keyframes[Len(sequence.keyframes)].frame = sequence.end

\* The constant sequences and their values.
ConstantValue ==
    CASE Len(Selected) = 0 -> saved.defval
      [] \A i \in 1..Len(Selected) : Selected[i].value = Selected[1].value -> Selected[1].value
      [] OTHER -> Undefined

SequenceShape ==
    Made => IF ConstantValue # Undefined
            THEN object.constant /\ object.value = ConstantValue
            ELSE ~object.constant /\ Spanning(object)

\* C27 as stated: the sequence is constant with the value of its case, or
\* spans start..end with two or more sorted keyframes; and getKeyframe
\* returns an index of keyframes, from 0 to keyframes.length - 1, for every
\* frame.
C27_ShapeAndIndexInKeyframes ==
    /\ SequenceShape
    /\ ret.op = "getKeyframe" => ret.data \in 0..(Len(object.keyframes) - 1)

\* C27 (amended): the same shape; getKeyframe never returns undefined, it
\* returns 0 on a constant sequence, which may hold no keyframe at all, and
\* an index of keyframes on the others.
C27_ShapeAndIndex ==
    /\ SequenceShape
    /\ ret.op = "getKeyframe" =>
          /\ ret.data # Undefined
          /\ IF object.constant THEN ret.data = 0
             ELSE ret.data \in 0..(Len(object.keyframes) - 1)

\* C27 (case reached): a frame strictly inside a sequence that had to be
\* given both an opening and a closing keyframe; the index is of a keyframe
\* in between.
C27_InnerKeyframe ==
    /\ ret.op = "getKeyframe" /\ ~object.constant
    /\ Len(object.keyframes) = Len(Selected) + 2
    /\ ret.frame > saved.start /\ ret.frame < saved.end
    /\ ret.data = 2

(***************************************************************************)
(* SpecVisibility: SpecLoad with the scene culling the instances and       *)
(* ending their culling.                                                   *)
(***************************************************************************)
Cull == \E k \in 1..Len(object.instances) : InstanceStep("cull", k, cull(object.instances[k]))

Uncull == \E k \in 1..Len(object.instances) : InstanceStep("uncull", k, uncull(object.instances[k]))

NextVisibility ==
    AddInstance \/ Resolve \/ SceneAddInstance \/ Hide \/ Show \/ Cull \/ Uncull

SpecVisibility == InitLoad /\ [][NextVisibility]_vars

\* C28: a step in which an instance asks its model view to make it visible
\* leaves that instance loaded, to be rendered and not culled.
C28_VisibleOnlyWhenReady ==
    [][\A k \in 1..Len(object.instances) :
          object'.instances[k].asked # object.instances[k].asked =>
              /\ object'.instances[k].loaded
              /\ object'.instances[k].shouldRender
              /\ ~object'.instances[k].culled]_vars

(***************************************************************************)
(* SpecReload: a War3MapW3i is stored into and saved, stored into again,   *)
(* and loaded from the saved buffer while it holds what was stored.        *)
(***************************************************************************)
NextReload == SetGated \/ PushGated \/ SaveW3i \/ LoadW3i

SpecReload == InitW3i /\ [][NextReload]_vars

\* C29: after object.load(buffer) has returned, the object is the one a new
\* War3MapW3i loaded from the same buffer is, whatever it held before: same
\* fields, same lists.
C29_LoadAsFresh ==
    (ret.op = "load" /\ Returned) => object = W3iLoad(NewW3i, buffer).object

(***************************************************************************)
(* Model.removeView.  Array.prototype.indexOf gives the first position of  *)
(* the element, from 0, or -1; splice(start, 1) counts a negative start    *)
(* from the end of the array and removes the element there, if any.        *)
(***************************************************************************)
indexOf(array, element) ==
    IF \E i \in 1..Len(array) : array[i] = element
    THEN (CHOOSE i \in 1..Len(array) :
              array[i] = element /\ \A j \in 1..(i - 1) : array[j] # element) - 1
    ELSE -1

\* array.splice(start, 1)
splice(array, start) ==
    LET from == IF start < 0
                THEN (IF Len(array) + start < 0 THEN 0 ELSE Len(array) + start)
                ELSE (IF start > Len(array) THEN Len(array) ELSE start)
    IN  [i \in 1..(IF from < Len(array) THEN Len(array) - 1 ELSE Len(array)) |->
            IF i <= from THEN array[i] ELSE array[i + 1]]

\* model.removeView(modelView)
removeView(model, modelView) ==
    [model EXCEPT !.views = splice(model.views, indexOf(model.views, modelView))]

(***************************************************************************)
(* SpecViews: views and instances are added to a model and views are       *)
(* removed from it; saved is the view list before the last call.           *)
(***************************************************************************)
MaxViews == 3

InitViews ==
    /\ object = Model
    /\ ret = [op |-> "new", arg |-> 0]
    /\ saved = <<>>
    /\ buffer = <<>> /\ streams = <<>> /\ NoTypedArray /\ edits = 0

ViewsStep(op, arg, model) ==
    /\ object' = model
    /\ saved' = object.views
    /\ ret' = [op |-> op, arg |-> arg]
    /\ UNCHANGED <<buffer, streams, typedArray, edits>>

AddView ==
    /\ object.created < MaxViews
    /\ ViewsStep("addView", 0, addView(object))

ViewsAddInstance ==
    /\ Len(object.instances) < MaxInstances
    /\ object.created < MaxViews
    /\ ViewsStep("addInstance", 0, addInstance(object))

\* modelView is a view of the list, one that was removed or one that never
\* was in it.
RemoveView ==
    \E modelView \in 1..MaxViews : ViewsStep("removeView", modelView, removeView(object, modelView))

NextViews == AddView \/ ViewsAddInstance \/ RemoveView

SpecViews == InitViews /\ [][NextViews]_vars

\* C30: removeView(v) leaves the view list as it was without v: v is gone if
\* it was there, nothing else is, and the order of the others is kept.
C30_RemovesExactly ==
    ret.op = "removeView" =>
        object.views = SelectSeq(saved, LAMBDA view : view # ret.arg)

====
